---- MODULE Spec2Model ----
(***************************************************************************)
(* Verification model of the zed-lang compiler front end                   *)
(* (src/compiler/src: lexer.rs, parser.rs, codegen.rs, main.rs).           *)
(*                                                                         *)
(* SpecParse : the include resolver and the function-symbol tracking of    *)
(*             Parser (parse_program / parse_include /                     *)
(*             parse_function_declaration / parse_function_call).          *)
(* SpecStd   : the same parser over a disk with two standard libraries.    *)
(* SpecLex   : Lexer::next_token over character strings.                   *)
(* SpecExpr  : the expression grammar of Parser (parse_assignment down to  *)
(*             parse_primary) over token sequences.                        *)
(* SpecErr   : lexer and parser together over the text of a file of       *)
(*             expression statements, with the location of the error.      *)
(* SpecGen   : CodeGenerator::generate (codegen.rs) over syntax trees.     *)
(* SpecCall  : the output for a call run on a model of the processor.      *)
(* SpecStart : the output for main.zed run from _start.                    *)
(* SpecCli   : the compiler process (main.rs main) and its exit status.    *)
(* SpecLogic : one comparison or logical operator run on the processor.    *)
(* SpecCompile: compile() and main's handling of its result.               *)
(* SpecTerm  : termination of lexer and parser, under weak fairness.       *)
(***************************************************************************)
EXTENDS Integers, Sequences, FiniteSets, TLC

VARIABLES
    fs,           \* the source files on disk: canonical path -> statements
    entry,        \* canonical path of the file handed to compile()
    home,         \* value of $HOME / $USERPROFILE, or NoPath
    cli_stdlib,   \* value of --stdlib-path, or NoPath
    stack,        \* the chain of live Parser objects (entry parser first)
    status,       \* "parsing", "ok" (Ok(ast)) or "failed" (Err(e))
    err,          \* the CompilerError returned, NoErr while there is none
    ast,          \* the Vec<AstNode> returned by the entry parse_program
    parsed,       \* how many times a Lexer was constructed over each file
    input,        \* Lexer.input: the characters of the source text
    lexer,        \* Lexer.position, Lexer.line, Lexer.column
    tokens,       \* the tokens next_token has returned so far
    lex_status,   \* "lexing", "eof" (EOF returned) or the error message
    toks,         \* the tokens of one expression statement, EOF at the end
    parse_result, \* what parse_statement returned for toks, NotParsed before
    program,      \* the Vec<AstNode> handed to CodeGenerator::generate
    main_file,    \* CodeGenerator.is_main_file
    generator,    \* the CodeGenerator of the latest run, after generate
    results,      \* the assembly returned by each run of generate so far
    cpu,          \* the processor and memory of the process running results[1]
    process       \* the compiler process: its arguments, its files, its exit

parseVars == <<fs, entry, home, cli_stdlib, stack, status, err, ast, parsed>>

lexVars == <<input, lexer, tokens, lex_status>>

exprVars == <<toks, parse_result>>

genVars == <<program, main_file, generator, results>>

backVars == <<genVars, cpu, process>>

vars == <<parseVars, lexVars, exprVars, backVars>>

----------------------------------------------------------------------------
(* Bounds *)

\* total number of statements (nested ones included) in the files on disk
MaxSize == 3

\* number of characters of a source text drawn from LexAlphabet
MaxLen == 4

\* number of binary operators in an expression statement
MaxOps == 3

\* number of top-level nodes of a syntax tree handed to the code generator
MaxNodes == 2

\* number of times the compiler is run on the same input
MaxRuns == 2

\* number of arguments of a call
MaxArgs == 8

\* number of 8-byte values a process may have on its stack
MaxStack == 96

\* number of command-line arguments after the program name
MaxArgv == 5

----------------------------------------------------------------------------
(* Paths.  A path is the sequence of its components. *)

NoPath == <<"<none>">>

ProjDir == <<"proj">>
MainFile == <<"proj", "main.zed">>
BFile == <<"proj", "b.zed">>
CFile == <<"proj", "c.zed">>
HomeDir == <<"home">>
OptStd == <<"opt", "zedstd">>

\* Path::parent
Parent(p) == SubSeq(p, 1, Len(p) - 1)

\* PathBuf::join / push of a relative path
Join(dir, rel) == dir \o rel

\* Parser::get_default_stdlib_path
NoHome == <<"<io error>">>
get_default_stdlib_path(h) ==
    IF h = NoPath THEN NoHome
    ELSE Join(h, <<".zed-lang", "std", "version", "1.0.0">>)

\* str::starts_with("std/")
starts_with_std(path) == Len(path) >= 2 /\ path[1] = "std"

----------------------------------------------------------------------------
(* Source statements and AST nodes *)

Names == {"f", "g"}

Predecl(n) == [kind |-> "predecl", name |-> n, body |-> <<>>, path |-> <<>>]
Call(n) == [kind |-> "call", name |-> n, body |-> <<>>, path |-> <<>>]
Fn(n, b) == [kind |-> "fn", name |-> n, body |-> b, path |-> <<>>]
Include(p) == [kind |-> "include", name |-> "", body |-> <<>>, path |-> p]

\* AstNode::FunctionPredecl / FunctionCall / FunctionDecl
FunctionPredecl(n) == [node |-> "FunctionPredecl", name |-> n, body |-> <<>>]
FunctionCall(n) == [node |-> "FunctionCall", name |-> n, body |-> <<>>]
FunctionDecl(n, b) == [node |-> "FunctionDecl", name |-> n, body |-> b]

NoErr == [kind |-> "none", name |-> "", at |-> "", file |-> NoPath]
Error(k, n, a, f) == [kind |-> k, name |-> n, at |-> a, file |-> f]

----------------------------------------------------------------------------
(* The lexer.  A character is a one-character string; lx is the cursor     *)
(* [position, line, column] of a Lexer over the text inp.                  *)

None == "<none>"

\* the element of a one-element set; {B : v \in {e}} is B with v bound to the
\* value of e as `let v = e;` binds it, e being computed once
Only(S) == CHOOSE res \in S : TRUE

\* lower-case letters stand for the letters of 'a'..='z' | 'A'..='Z' | '_'
Letters ==
    {"a", "b", "c", "d", "e", "f", "g", "h", "i", "j", "k", "l", "m", "n",
     "o", "p", "q", "r", "s", "t", "u", "v", "w", "x", "y", "z", "_"}

Digits == {"0", "1", "2", "3", "4", "5", "6", "7", "8", "9"}

\* char::is_whitespace
is_whitespace(ch) == ch \in {" ", "\n", "\t", "\r"}

\* Lexer::new
Lexer == [position |-> 0, line |-> 1, column |-> 1]

\* Lexer::peek
peek(inp, lx) == IF lx.position < Len(inp) THEN inp[lx.position + 1] ELSE None

\* Lexer::advance
advance(inp, lx) ==
    IF peek(inp, lx) = None THEN lx
    ELSE IF peek(inp, lx) = "\n"
    THEN [position |-> lx.position + 1, line |-> lx.line + 1, column |-> 1]
    ELSE [position |-> lx.position + 1, line |-> lx.line, column |-> lx.column + 1]

\* Lexer::skip_whitespace
RECURSIVE skip_whitespace(_, _)
skip_whitespace(inp, lx) ==
    IF peek(inp, lx) # None /\ is_whitespace(peek(inp, lx))
    THEN Only({skip_whitespace(inp, a) : a \in {advance(inp, lx)}})
    ELSE lx

\* skip_whitespace_and_comments, the loop over a `//` comment
RECURSIVE skip_line_comment(_, _)
skip_line_comment(inp, lx) ==
    IF peek(inp, lx) # None /\ peek(inp, lx) # "\n"
    THEN Only({skip_line_comment(inp, a) : a \in {advance(inp, lx)}})
    ELSE lx

\* skip_whitespace_and_comments, the loop over a `/* */` comment; closed is
\* FALSE when the text ends inside the comment (the function returns)
RECURSIVE skip_block_comment(_, _)
skip_block_comment(inp, lx) ==
    CASE peek(inp, lx) = None -> [lx |-> lx, closed |-> FALSE]
      [] peek(inp, lx) = "*" ->
            Only({IF peek(inp, a) = "/"
                  THEN [lx |-> advance(inp, a), closed |-> TRUE]
                  ELSE skip_block_comment(inp, a) : a \in {advance(inp, lx)}})
      [] OTHER -> Only({skip_block_comment(inp, a) : a \in {advance(inp, lx)}})

\* Lexer::skip_whitespace_and_comments
RECURSIVE skip_whitespace_and_comments(_, _)
skip_whitespace_and_comments(inp, lx) ==
    Only({IF peek(inp, a) # "/" THEN a
          ELSE Only({CASE peek(inp, b) = "/" ->
                            Only({skip_whitespace_and_comments(inp, c) :
                                    c \in {skip_line_comment(inp, advance(inp, b))}})
                       [] peek(inp, b) = "*" ->
                            Only({IF c.closed
                                  THEN skip_whitespace_and_comments(inp, c.lx)
                                  ELSE c.lx :
                                    c \in {skip_block_comment(inp, advance(inp, b))}})
                       [] OTHER ->
                            [b EXCEPT !.position = @ - 1, !.column = @ - 1] :
                     b \in {advance(inp, a)}}) :
            a \in {skip_whitespace(inp, lx)}})

\* Token
Token(type, value, line, column) ==
    [token_type |-> type, value |-> value, line |-> line, column |-> column]

Lexed(lx, tok) == [lx |-> lx, tok |-> tok, error |-> None]

\* Lexer::create_error
LexError(lx, msg) == [lx |-> lx, tok |-> Token("EOF", <<>>, 0, 0), error |-> msg]

Escapes ==
    [c \in {"n", "t", "r", "\\", "\"", "0", "b", "f", "v", "'"} |->
        CASE c = "n" -> "\n" [] c = "t" -> "\t" [] c = "r" -> "\r"
          [] c = "0" -> "<NUL>" [] c = "b" -> "<BS>" [] c = "f" -> "<FF>"
          [] c = "v" -> "<VT>" [] OTHER -> c]

\* Lexer::read_string with process_escape_sequence; str is the text so far
RECURSIVE read_string_loop(_, _, _, _)
read_string_loop(inp, lx, str, start_column) ==
    CASE peek(inp, lx) = None -> LexError(lx, "unterminated string literal")
      [] peek(inp, lx) = "\"" ->
            LET a == advance(inp, lx)
            IN  Lexed(a, Token("StringLiteral", str, a.line, start_column))
      [] peek(inp, lx) = "\\" ->
            LET a == advance(inp, lx)
                ch == peek(inp, a)
            IN  IF ch = None THEN LexError(a, "incomplete escape sequence")
                ELSE IF ch \notin DOMAIN Escapes
                THEN LexError(advance(inp, a), "invalid escape sequence")
                ELSE Only({read_string_loop(inp, b, t, start_column) :
                             b \in {advance(inp, a)},
                             t \in {Append(str, Escapes[ch])}})
      [] OTHER ->
            Only({read_string_loop(inp, b, t, start_column) :
                    b \in {advance(inp, lx)}, t \in {Append(str, peek(inp, lx))}})

read_string(inp, lx) == read_string_loop(inp, advance(inp, lx), <<>>, lx.column)

\* the longest run of characters of a class starting at the cursor
RECURSIVE take_while(_, _, _)
take_while(inp, lx, class) ==
    IF peek(inp, lx) # None /\ peek(inp, lx) \in class
    THEN Only({[lx |-> r.lx, text |-> <<peek(inp, lx)>> \o r.text] :
                 r \in {take_while(inp, advance(inp, lx), class)}})
    ELSE [lx |-> lx, text |-> <<>>]

\* str::parse::<i64>: the value, written without its leading zeros
RECURSIVE strip_zeros(_)
strip_zeros(digs) ==
    IF Len(digs) > 1 /\ Head(digs) = "0" THEN strip_zeros(Tail(digs)) ELSE digs

DigitValue(ch) == CHOOSE v \in 0..9 : ToString(v) = ch

I64Max == <<9, 2, 2, 3, 3, 7, 2, 0, 3, 6, 8, 5, 4, 7, 7, 5, 8, 0, 7>>

RECURSIVE digits_greater(_, _)
digits_greater(a, b) ==
    IF a = <<>> THEN FALSE
    ELSE IF DigitValue(Head(a)) # Head(b) THEN DigitValue(Head(a)) > Head(b)
    ELSE digits_greater(Tail(a), Tail(b))

overflows_i64(digs) ==
    \/ Len(strip_zeros(digs)) > Len(I64Max)
    \/ Len(strip_zeros(digs)) = Len(I64Max) /\ digits_greater(strip_zeros(digs), I64Max)

\* Lexer::read_number
read_number(inp, lx) ==
    LET r == take_while(inp, lx, Digits)
    IN  IF overflows_i64(r.text) THEN LexError(r.lx, "invalid number")
        ELSE Lexed(r.lx, Token("Number", strip_zeros(r.text), r.lx.line, lx.column))

\* the keyword table of read_identifier
Keywords ==
    (<<"i", "f">> :> "If") @@ (<<"e", "l", "s", "e">> :> "Else")
    @@ (<<"w", "h", "i", "l", "e">> :> "While") @@ (<<"f", "n">> :> "Function")
    @@ (<<"r", "e", "t", "u", "r", "n">> :> "Return")
    @@ (<<"f", "r", "o", "m">> :> "From") @@ (<<"a", "s", "m">> :> "Asm")

\* Lexer::read_identifier
read_identifier(inp, lx) ==
    LET r == take_while(inp, lx, Letters \cup Digits)
    IN  Lexed(r.lx,
              IF r.text \in DOMAIN Keywords
              THEN Token(Keywords[r.text], <<>>, r.lx.line, lx.column)
              ELSE Token("Identifier", r.text, r.lx.line, lx.column))

\* the one-character tokens whose column is taken as `self.column - 1`
\* after the advance
SingleChars ==
    ("+" :> "Plus") @@ ("-" :> "Minus") @@ ("*" :> "Multiply")
    @@ ("/" :> "Divide") @@ (";" :> "Semicolon") @@ ("(" :> "LParen")
    @@ (")" :> "RParen") @@ ("{" :> "LBrace") @@ ("}" :> "RBrace")
    @@ ("," :> "Comma")

\* the one-character tokens whose column is saved before the advance
SavedColumnChars ==
    (":" :> "Colon") @@ ("[" :> "LeftBracket") @@ ("]" :> "RightBracket")

\* `=`, `<`, `>` and what they become when a `=` follows
WithEquals ==
    ("=" :> <<"Assign", "Equals">>) @@ ("<" :> <<"Less", "LessEqual">>)
    @@ (">" :> <<"Greater", "GreaterEqual">>)

\* Lexer::next_token
next_token(inp, lx0) ==
    LET lx == skip_whitespace_and_comments(inp, skip_whitespace(inp, lx0))
        ch == peek(inp, lx)
        a == advance(inp, lx)
    IN  CASE ch = None -> Lexed(lx, Token("EOF", <<>>, lx.line, lx.column))
          [] ch = "@" ->
                LET r == take_while(inp, a, Letters \cup Digits)
                IN  IF r.text = <<"i", "n", "c", "l", "u", "d", "e">>
                    THEN Lexed(r.lx, Token("Include", <<>>, r.lx.line,
                                           r.lx.column - Len(r.text) - 1))
                    ELSE LexError(r.lx, "unknown directive")
          [] ch \in DOMAIN SavedColumnChars ->
                Lexed(a, Token(SavedColumnChars[ch], <<>>, a.line, lx.column))
          [] ch \in Digits -> read_number(inp, lx)
          [] ch \in Letters -> read_identifier(inp, lx)
          [] ch \in DOMAIN SingleChars ->
                Lexed(a, Token(SingleChars[ch], <<>>, a.line, a.column - 1))
          [] ch \in DOMAIN WithEquals ->
                IF peek(inp, a) = "="
                THEN LET b == advance(inp, a)
                     IN  Lexed(b, Token(WithEquals[ch][2], <<>>, b.line, b.column - 2))
                ELSE Lexed(a, Token(WithEquals[ch][1], <<>>, a.line, a.column - 1))
          [] ch = "\"" -> read_string(inp, lx)
          [] OTHER -> LexError(lx, "unexpected character")

\* where next_token starts to read a token: after white space and comments
token_start(inp, lx0) ==
    skip_whitespace_and_comments(inp, skip_whitespace(inp, lx0)).position + 1

----------------------------------------------------------------------------
(* Expression parsing over a token sequence ts that ends in EOF.  i is the *)
(* index of Parser.current_token; a result is [node, pos, error].          *)

Number(v) == [node |-> "Number", value |-> v, kids |-> <<>>]
Variable(name) == [node |-> "Variable", value |-> name, kids |-> <<>>]
StringLiteral(str) == [node |-> "StringLiteral", value |-> str, kids |-> <<>>]
BinaryOp(l, op, r) == [node |-> "BinaryOp", value |-> op, kids |-> <<l, r>>]
Assignment(name, v) == [node |-> "Assignment", value |-> name, kids |-> <<v>>]
ArrayIndex(a, ix) == [node |-> "ArrayIndex", value |-> "", kids |-> <<a, ix>>]
ArrayAssignment(a, ix, v) ==
    [node |-> "ArrayAssignment", value |-> "", kids |-> <<a, ix, v>>]
CallNode(name, args) == [node |-> "FunctionCall", value |-> name, kids |-> args]

NoNode == [node |-> "none", value |-> "", kids |-> <<>>]

Parsed(n, i) == [node |-> n, pos |-> i, error |-> None]

ParseError(msg, i) == [node |-> NoNode, pos |-> i, error |-> msg]

\* the token after position i; the lexer keeps returning EOF at the end
Advance(ts, i) == IF i < Len(ts) THEN i + 1 ELSE i


\* Parser::eat applied to the result r0 of what was parsed before
eat(ts, r0, expected_type) ==
    Only({IF r.error # None THEN r
        ELSE IF ts[r.pos].token_type = expected_type
        THEN [r EXCEPT !.pos = Advance(ts, r.pos)]
        ELSE ParseError("unexpected token", r.pos)
          : r \in {r0}})

MultiplicativeOps == ("Multiply" :> "Multiply") @@ ("Divide" :> "Divide")

AdditiveOps == ("Plus" :> "Add") @@ ("Minus" :> "Subtract")

ComparisonOps ==
    ("Equals" :> "Equals") @@ ("NotEquals" :> "NotEquals") @@ ("Less" :> "Less")
    @@ ("Greater" :> "Greater") @@ ("LessEqual" :> "LessEqual")
    @@ ("GreaterEqual" :> "GreaterEqual")

LogicalOps == ("And" :> "And") @@ ("Or" :> "Or")

RECURSIVE parse_assignment(_, _, _), parse_logical(_, _, _),
          parse_comparison(_, _, _), parse_additive(_, _, _),
          parse_multiplicative(_, _, _), parse_primary(_, _, _),
          parse_arguments(_, _, _, _),
          multiplicative_loop(_, _, _), additive_loop(_, _, _),
          comparison_loop(_, _, _), logical_loop(_, _, _)

\* Parser::parse_expression
parse_expression(ts, i, declared) == parse_assignment(ts, i, declared)

\* parse_function_call, the argument list: r0 is the argument just parsed,
\* args are the ones before it; the result carries all arguments as kids
parse_arguments(ts, r0, args, declared) ==
    Only({IF r.error # None THEN r
        ELSE IF ts[r.pos].token_type = "Comma"
        THEN parse_arguments(ts, parse_expression(ts, Advance(ts, r.pos), declared),
                             Append(args, r.node), declared)
        ELSE [r EXCEPT !.node = CallNode("", Append(args, r.node))]
          : r \in {r0}})

\* Parser::parse_primary, with parse_function_call for `name (`
parse_primary(ts, i, declared) ==
    LET t == ts[i]
        j == Advance(ts, i)
    IN  CASE t.token_type = "Number" -> Parsed(Number(t.value), j)
          [] t.token_type = "StringLiteral" -> Parsed(StringLiteral(t.value), j)
          [] t.token_type = "Identifier" ->
                IF ts[j].token_type = "LeftBracket"
                THEN Only({IF ix.error # None THEN ix
                            ELSE Parsed(ArrayIndex(Variable(t.value), ix.node), ix.pos)
          : ix \in {eat(ts, parse_expression(ts, Advance(ts, j), declared),
                              "RightBracket")}})
                ELSE IF ts[j].token_type = "LParen"
                THEN IF t.value \notin declared
                     THEN ParseError("call to undeclared function", j)
                     ELSE IF ts[Advance(ts, j)].token_type = "RParen"
                     THEN Parsed(CallNode(t.value, <<>>), Advance(ts, Advance(ts, j)))
                     ELSE Only({IF as.error # None THEN as
                                 ELSE Parsed(CallNode(t.value, as.node.kids), as.pos)
          : as \in {eat(ts,
                                   parse_arguments(ts,
                                      parse_expression(ts, Advance(ts, j), declared),
                                      <<>>, declared),
                                   "RParen")}})
                ELSE Parsed(Variable(t.value), j)
          [] t.token_type = "LParen" ->
                eat(ts, parse_expression(ts, j, declared), "RParen")
          [] OTHER -> ParseError("unexpected token in expression", i)

\* the loop shared in shape by the four binary levels is written out four
\* times in the source; l0 is the expression built so far

\* parse_multiplicative, the loop
multiplicative_loop(ts, l0, declared) ==
    Only({IF l.error # None \/ ts[l.pos].token_type \notin DOMAIN MultiplicativeOps
        THEN l
        ELSE Only({IF right.error # None THEN right
                ELSE multiplicative_loop(ts,
                        Parsed(BinaryOp(l.node,
                                        MultiplicativeOps[ts[l.pos].token_type],
                                        right.node), right.pos), declared)
          : right \in {parse_primary(ts, Advance(ts, l.pos), declared)}})
          : l \in {l0}})

\* Parser::parse_multiplicative
parse_multiplicative(ts, i, declared) ==
    multiplicative_loop(ts, parse_primary(ts, i, declared), declared)

\* parse_additive, the loop
additive_loop(ts, l0, declared) ==
    Only({IF l.error # None \/ ts[l.pos].token_type \notin DOMAIN AdditiveOps
        THEN l
        ELSE Only({IF right.error # None THEN right
                    ELSE additive_loop(ts,
                            Parsed(BinaryOp(l.node, AdditiveOps[ts[l.pos].token_type],
                                            right.node), right.pos), declared)
          : right \in {parse_multiplicative(ts, Advance(ts, l.pos), declared)}})
          : l \in {l0}})

\* parse_additive gone wrong: the right operand parsed by parse_additive
\* itself, which groups a - b - c as a - (b - c)
parse_additive_right_assoc(ts, i, declared) ==
    Only({IF l.error # None \/ ts[l.pos].token_type \notin DOMAIN AdditiveOps
        THEN l
        ELSE Only({IF right.error # None THEN right
                ELSE Parsed(BinaryOp(l.node, AdditiveOps[ts[l.pos].token_type],
                                     right.node), right.pos)
          : right \in {parse_additive(ts, Advance(ts, l.pos), declared)}})
          : l \in {parse_multiplicative(ts, i, declared)}})

\* Parser::parse_additive
parse_additive(ts, i, declared) ==
    additive_loop(ts, parse_multiplicative(ts, i, declared), declared)

\* parse_comparison, the loop
comparison_loop(ts, l0, declared) ==
    Only({IF l.error # None \/ ts[l.pos].token_type \notin DOMAIN ComparisonOps
        THEN l
        ELSE Only({IF right.error # None THEN right
                ELSE comparison_loop(ts,
                        Parsed(BinaryOp(l.node, ComparisonOps[ts[l.pos].token_type],
                                        right.node), right.pos), declared)
          : right \in {parse_additive(ts, Advance(ts, l.pos), declared)}})
          : l \in {l0}})

\* Parser::parse_comparison
parse_comparison(ts, i, declared) ==
    comparison_loop(ts, parse_additive(ts, i, declared), declared)

\* parse_logical, the loop
logical_loop(ts, l0, declared) ==
    Only({IF l.error # None \/ ts[l.pos].token_type \notin DOMAIN LogicalOps
        THEN l
        ELSE Only({IF right.error # None THEN right
                ELSE logical_loop(ts,
                        Parsed(BinaryOp(l.node, LogicalOps[ts[l.pos].token_type],
                                        right.node), right.pos), declared)
          : right \in {parse_comparison(ts, Advance(ts, l.pos), declared)}})
          : l \in {l0}})

\* Parser::parse_logical
parse_logical(ts, i, declared) ==
    logical_loop(ts, parse_comparison(ts, i, declared), declared)

\* Parser::parse_assignment
parse_assignment(ts, i, declared) ==
    Only({IF expr.error # None \/ ts[expr.pos].token_type # "Assign" THEN expr
        ELSE IF expr.node.node \notin {"Variable", "ArrayIndex"}
        THEN ParseError("invalid assignment target", expr.pos)
        ELSE Only({IF v.error # None THEN v
                ELSE IF expr.node.node = "Variable"
                THEN Parsed(Assignment(expr.node.value, v.node), v.pos)
                ELSE Parsed(ArrayAssignment(expr.node.kids[1], expr.node.kids[2],
                                            v.node), v.pos)
          : v \in {parse_assignment(ts, Advance(ts, expr.pos), declared)}})
          : expr \in {parse_logical(ts, i, declared)}})

\* parse_statement, the `_ =>` arm: an expression and the `;` after it
parse_expression_statement(ts, declared) ==
    eat(ts, parse_expression(ts, 1, declared), "Semicolon")

----------------------------------------------------------------------------
(* Statement parsing.  p is the part of the Parser that statements touch:  *)
(* [declared, defined : sets of names, err, nodes : the nodes built so     *)
(* far in the enclosing list].  file is the lexer's filename.              *)

is_function_declared(p, name) == name \in p.declared

is_function_defined(p, name) == name \in p.defined

\* parse_function_call: the callee must be declared at the call site
parse_function_call(stmt, p, file) ==
    IF ~is_function_declared(p, stmt.name)
    THEN [p EXCEPT !.err = Error("undeclared", stmt.name, stmt.kind, file)]
    ELSE [p EXCEPT !.nodes = Append(@, FunctionCall(stmt.name))]

RECURSIVE parse_statement(_, _, _), parse_block(_, _, _)

\* a parser that records a definition in defined_functions only
parse_function_declaration_defined_only(stmt, p, file) ==
    IF is_function_defined(p, stmt.name)
    THEN [p EXCEPT !.err = Error("already defined", stmt.name, stmt.kind, file)]
    ELSE IF stmt.kind = "predecl"
    THEN [p EXCEPT !.declared = @ \cup {stmt.name},
                   !.nodes = Append(@, FunctionPredecl(stmt.name))]
    ELSE LET b == parse_block(stmt.body, [p EXCEPT !.nodes = <<>>], file)
         IN  IF b.err # NoErr THEN b
             ELSE [declared |-> b.declared,
                   defined |-> b.defined \cup {stmt.name},
                   err |-> NoErr,
                   nodes |-> Append(p.nodes, FunctionDecl(stmt.name, b.nodes))]

\* parse_function_declaration: the "already defined" test comes right after
\* the name, before the parser knows whether a `;` or a body follows; the
\* two sets are updated only after the body has been parsed.
parse_function_declaration(stmt, p, file) ==
    IF is_function_defined(p, stmt.name)
    THEN [p EXCEPT !.err = Error("already defined", stmt.name, stmt.kind, file)]
    ELSE IF stmt.kind = "predecl"
    THEN [p EXCEPT !.declared = @ \cup {stmt.name},
                   !.nodes = Append(@, FunctionPredecl(stmt.name))]
    ELSE LET b == parse_block(stmt.body, [p EXCEPT !.nodes = <<>>], file)
         IN  IF b.err # NoErr THEN b
             ELSE [declared |-> b.declared \cup {stmt.name},
                   defined |-> b.defined \cup {stmt.name},
                   err |-> NoErr,
                   nodes |-> Append(p.nodes, FunctionDecl(stmt.name, b.nodes))]

\* parse_statement: an @include is no statement (parse_primary rejects it)
parse_statement(stmt, p, file) ==
    CASE stmt.kind \in {"predecl", "fn"} -> parse_function_declaration(stmt, p, file)
      [] stmt.kind = "call" -> parse_function_call(stmt, p, file)
      [] OTHER -> [p EXCEPT !.err = Error("unexpected token", "", stmt.kind, file)]

\* parse_block: the statements between `{` and `}` in order, first error wins
parse_block(stmts, p, file) ==
    IF stmts = <<>> THEN p
    ELSE LET r == parse_statement(Head(stmts), p, file)
         IN  IF r.err # NoErr THEN r ELSE parse_block(Tail(stmts), r, file)

----------------------------------------------------------------------------
(* The files a unit may consist of *)

SimpleStmts == {Predecl(n) : n \in Names} \cup {Call(n) : n \in Names}

\* what an @include directive may name, relative to the including file
IncludePaths == {<<"main.zed">>, <<"b.zed">>, <<"c.zed">>}

\* statement lists of exactly s statements that may stand inside a block
RECURSIVE InnerSeqs(_)
InnerSeqs(s) ==
    IF s = 0 THEN {<<>>}
    ELSE {<<x>> \o r : x \in SimpleStmts, r \in InnerSeqs(s - 1)}
         \cup UNION {{<<Fn(n, b)>> \o r :
                        n \in Names, b \in InnerSeqs(k), r \in InnerSeqs(s - 1 - k)} :
                     k \in 0..(s - 1)}

\* statement lists of exactly s statements that may form a file whose
\* @include directives name the given paths
RECURSIVE TopSeqs(_, _)
TopSeqs(s, paths) ==
    IF s = 0 THEN {<<>>}
    ELSE {<<x>> \o r : x \in SimpleStmts \cup {Include(q) : q \in paths},
                       r \in TopSeqs(s - 1, paths)}
         \cup UNION {{<<Fn(n, b)>> \o r :
                        n \in Names, b \in InnerSeqs(k),
                        r \in TopSeqs(s - 1 - k, paths)} :
                     k \in 0..(s - 1)}

Files == {MainFile, BFile, CFile}

\* a second disk layout: a standard library under $HOME, another one where
\* --stdlib-path points, and a subdirectory of the project
StdIo == <<"home", ".zed-lang", "std", "version", "1.0.0", "io.zed">>
OptIo == <<"opt", "zedstd", "io.zed">>
SubC == <<"proj", "sub", "c.zed">>
SubD == <<"proj", "sub", "d.zed">>
ProjD == <<"proj", "d.zed">>

StdIncludePaths == {<<"std", "io.zed">>, <<"sub", "c.zed">>, <<"d.zed">>}

----------------------------------------------------------------------------
(* The Parser objects *)

\* Parser::new and the child constructed in parse_include
Parser(file, declared, defined, included, stdlib) ==
    [file |-> file, pos |-> 1, current_dir |-> Parent(file),
     declared_functions |-> declared, defined_functions |-> defined,
     included_files |-> included, stdlib_path |-> stdlib, nodes |-> <<>>]

\* parse_include, "Update function tracking sets": the parent takes over
\* the child's included_files
merge_included_files_kept(own, childs) == own

merge_included_files(own, childs) == childs

Top == stack[Len(stack)]

SetTop(fr) == [stack EXCEPT ![Len(stack)] = fr]

AtStatement ==
    /\ status = "parsing"
    /\ Top.pos <= Len(fs[Top.file])

CurrentStmt == fs[Top.file][Top.pos]

Fail(e) ==
    /\ status' = "failed"
    /\ err' = e
    /\ UNCHANGED <<stack, ast, parsed>>

\* fs::canonicalize: the path must name an existing file
canonicalize(path) == IF path \in DOMAIN fs THEN path ELSE NoPath

\* main.rs: --stdlib-path when given, else the default root when $HOME or
\* $USERPROFILE is set, else none
stdlib_option(cli, h) ==
    IF cli # NoPath THEN cli
    ELSE IF get_default_stdlib_path(h) # NoHome THEN get_default_stdlib_path(h)
    ELSE NoPath

\* the lexer variables while a specification is about the parser only
LexIdle ==
    /\ input = <<>>
    /\ lexer = Lexer
    /\ tokens = <<>>
    /\ lex_status = "idle"

\* the expression variables while a specification is about something else
NotParsed == [node |-> NoNode, pos |-> 0, error |-> "not parsed"]

ExprIdle ==
    /\ toks = <<>>
    /\ parse_result = NotParsed

\* the code generator variables while a specification is about the front end
GenIdle ==
    /\ program = <<>>
    /\ main_file = FALSE
    /\ generator = <<>>
    /\ results = <<>>

\* the machine before a process is started
NoFlags == [known |-> FALSE, zf |-> FALSE, lt |-> FALSE]

CpuIdle == [code |-> <<>>, pc |-> 0, regs |-> <<>>, mem |-> <<>>, depth |-> 0,
            flags |-> NoFlags,
            state |-> "idle"]

\* no compiler process
CliIdle == [args |-> <<>>, home |-> FALSE, files |-> {}, dirs |-> {},
            unwritable |-> {}, compile_error |-> FALSE, out_file |-> "absent",
            stderr |-> <<>>, done |-> FALSE, exit |-> 0]

BackIdle ==
    /\ GenIdle
    /\ cpu = CpuIdle
    /\ process = CliIdle

\* the parser variables while a specification is about the lexer only
ParseIdle ==
    /\ fs = <<>>
    /\ entry = NoPath
    /\ home = NoPath
    /\ cli_stdlib = NoPath
    /\ stack = <<>>
    /\ status = "idle"
    /\ err = NoErr
    /\ ast = <<>>
    /\ parsed = <<>>

\* main.rs compile(): Lexer::new, Parser::new, set_stdlib_path
compile ==
    /\ stack = <<Parser(entry, {}, {}, {}, stdlib_option(cli_stdlib, home))>>
    /\ status = "parsing"
    /\ err = NoErr
    /\ ast = <<>>
    /\ parsed = [f \in DOMAIN fs |-> IF f = entry THEN 1 ELSE 0]

\* three files in one directory, any of them handed to the compiler
InitParse ==
    /\ entry \in Files
    /\ home = HomeDir
    /\ cli_stdlib = NoPath
    /\ \E a, b, c \in 0..MaxSize :
          /\ a + b + c <= MaxSize
          /\ \E x \in TopSeqs(a, IncludePaths), y \in TopSeqs(b, IncludePaths),
                z \in TopSeqs(c, IncludePaths) :
                fs = (MainFile :> x) @@ (BFile :> y) @@ (CFile :> z)
    /\ compile
    /\ LexIdle
    /\ ExprIdle
    /\ BackIdle

\* main.zed compiled with or without --stdlib-path and with or without a
\* home directory, over the second disk layout
InitStd ==
    /\ entry = MainFile
    /\ home \in {HomeDir, NoPath}
    /\ cli_stdlib \in {OptStd, NoPath}
    /\ \E a \in 0..MaxSize : \E x \in TopSeqs(a, StdIncludePaths) :
          fs = (MainFile :> x) @@ (StdIo :> <<Fn("f", <<>>)>>)
               @@ (OptIo :> <<Fn("g", <<>>)>>)
               @@ (SubC :> <<Include(<<"d.zed">>)>>)
               @@ (SubD :> <<Fn("g", <<>>)>>) @@ (ProjD :> <<>>)
    /\ compile
    /\ LexIdle
    /\ ExprIdle
    /\ BackIdle

\* parse_program, loop body, `_ =>` arm: one top-level statement
ParseStatement ==
    /\ AtStatement
    /\ CurrentStmt.kind # "include"
    /\ LET fr == Top
           r == parse_statement(CurrentStmt,
                    [declared |-> fr.declared_functions,
                     defined |-> fr.defined_functions,
                     err |-> NoErr, nodes |-> fr.nodes], fr.file)
       IN  IF r.err # NoErr THEN Fail(r.err)
           ELSE /\ stack' = SetTop([fr EXCEPT !.pos = @ + 1,
                                              !.declared_functions = r.declared,
                                              !.defined_functions = r.defined,
                                              !.nodes = r.nodes])
                /\ UNCHANGED <<status, err, ast, parsed>>
    /\ UNCHANGED <<fs, entry, home, cli_stdlib, lexVars, exprVars, backVars>>

\* parse_include, "Check for circular includes": HashSet::insert of the
\* canonical path, reached only when the path is not yet in the set
insert_dropped(included, canonical_path) == included

insert(included, canonical_path) == included \cup {canonical_path}

\* parse_include up to the child's parse_program: resolve, canonicalize,
\* circular check, construct the child parser over clones of the three sets
ParseInclude ==
    /\ AtStatement
    /\ CurrentStmt.kind = "include"
    /\ LET fr == Top
           path == CurrentStmt.path
           dflt == get_default_stdlib_path(home)
           full_path == IF starts_with_std(path)
                        THEN Join(dflt, Tail(path))
                        ELSE Join(fr.current_dir, path)
           canonical_path == canonicalize(full_path)
       IN  IF starts_with_std(path) /\ dflt = NoHome
           THEN Fail(Error("io", "stdlib", "include", fr.file))
           ELSE IF canonical_path = NoPath
           THEN Fail(Error("io", "resolve", "include", fr.file))
           ELSE IF canonical_path \in fr.included_files
           THEN Fail(Error("circular include detected", "", "include", fr.file))
           ELSE LET inc == insert(fr.included_files, canonical_path)
                IN  /\ stack' = Append(SetTop([fr EXCEPT !.included_files = inc]),
                                   Parser(canonical_path, fr.declared_functions,
                                          fr.defined_functions, inc,
                                          fr.stdlib_path))
                    /\ parsed' = [parsed EXCEPT ![canonical_path] = @ + 1]
                    /\ UNCHANGED <<status, err, ast>>
    /\ UNCHANGED <<fs, entry, home, cli_stdlib, lexVars, exprVars, backVars>>

\* parse_program after the loop: the declared-but-not-defined check (the
\* HashSet is iterated in an unspecified order, so any missing name may be
\* the one reported), then Ok(statements); in a child parser the caller
\* parse_include then takes over the three sets and splices the nodes.
ParseProgramEnd ==
    /\ status = "parsing"
    /\ Top.pos > Len(fs[Top.file])
    /\ LET fr == Top
           missing == fr.declared_functions \ fr.defined_functions
       IN  IF missing # {}
           THEN \E n \in missing :
                   Fail(Error("declared but not defined", n, "eof", fr.file))
           ELSE IF Len(stack) = 1
           THEN /\ status' = "ok"
                /\ ast' = fr.nodes
                /\ UNCHANGED <<stack, err, parsed>>
           ELSE LET parent == stack[Len(stack) - 1]
                IN  /\ stack' = Append(SubSeq(stack, 1, Len(stack) - 2),
                                   [parent EXCEPT
                                      !.pos = @ + 1,
                                      !.declared_functions = fr.declared_functions,
                                      !.defined_functions = fr.defined_functions,
                                      !.included_files =
                                          merge_included_files(@, fr.included_files),
                                      !.nodes = @ \o fr.nodes])
                    /\ UNCHANGED <<status, err, ast, parsed>>
    /\ UNCHANGED <<fs, entry, home, cli_stdlib, lexVars, exprVars, backVars>>

NextParse == ParseStatement \/ ParseInclude \/ ParseProgramEnd

SpecParse == InitParse /\ [][NextParse]_vars

SpecStd == InitStd /\ [][NextParse]_vars

----------------------------------------------------------------------------
(* The lexer run over a whole text, one next_token call per step *)

LexAlphabet == {"a", "1", " ", "\n", "\"", "/", "*", "=", ":"}

RECURSIVE Strings(_)
Strings(n) ==
    IF n = 0 THEN {<<>>}
    ELSE {<<c>> \o r : c \in LexAlphabet, r \in Strings(n - 1)}

\* the token kinds that have one canonical text, with that text
CanonicalText ==
    (<<";">> :> "Semicolon") @@ (<<",">> :> "Comma") @@ (<<":">> :> "Colon")
    @@ (<<"(">> :> "LParen") @@ (<<")">> :> "RParen")
    @@ (<<"{">> :> "LBrace") @@ (<<"}">> :> "RBrace")
    @@ (<<"[">> :> "LeftBracket") @@ (<<"]">> :> "RightBracket")
    @@ (<<"+">> :> "Plus") @@ (<<"-">> :> "Minus") @@ (<<"*">> :> "Multiply")
    @@ (<<"/">> :> "Divide") @@ (<<"=">> :> "Assign")
    @@ (<<"=", "=">> :> "Equals") @@ (<<"!", "=">> :> "NotEquals")
    @@ (<<"<">> :> "Less") @@ (<<">">> :> "Greater")
    @@ (<<"<", "=">> :> "LessEqual") @@ (<<">", "=">> :> "GreaterEqual")
    @@ (<<"&", "&">> :> "And") @@ (<<"|", "|">> :> "Or")
    @@ (<<"@", "i", "n", "c", "l", "u", "d", "e">> :> "Include")
    @@ Keywords

InitLex ==
    /\ input \in (UNION {Strings(n) : n \in 0..MaxLen}) \cup DOMAIN CanonicalText
    /\ lexer = Lexer
    /\ tokens = <<>>
    /\ lex_status = "lexing"
    /\ ParseIdle
    /\ ExprIdle
    /\ BackIdle

\* one call of next_token by the parser (Parser::new, Parser::eat); the
\* parser stops calling at EOF and at the first error
NextToken ==
    /\ lex_status = "lexing"
    /\ \E r \in {next_token(input, lexer)} :
           /\ lexer' = r.lx
           /\ IF r.error # None
              THEN /\ lex_status' = r.error
                   /\ UNCHANGED tokens
              ELSE /\ tokens' = Append(tokens,
                                    [tok |-> r.tok, start |-> token_start(input, lexer)])
                   /\ lex_status' = IF r.tok.token_type = "EOF" THEN "eof" ELSE "lexing"
    /\ UNCHANGED <<input, parseVars, exprVars, backVars>>

NextLex == NextToken

SpecLex == InitLex /\ [][NextLex]_vars

----------------------------------------------------------------------------
(* One expression statement: operands joined by binary operators and `=` *)

Tok(type, value) == [token_type |-> type, value |-> value]

OperatorTokens ==
    DOMAIN MultiplicativeOps \cup DOMAIN AdditiveOps \cup DOMAIN ComparisonOps
    \cup DOMAIN LogicalOps \cup {"Assign"}

\* the k-th operand: the identifier xk or the number k
Operand(kind, k) ==
    IF kind = "Identifier" THEN Tok("Identifier", "x" \o ToString(k))
    ELSE Tok("Number", <<ToString(k)>>)

\* operand 1, operator 1, operand 2, ..., `;`, EOF
Statement(kinds, ops) ==
    [i \in 1..(2 * Len(ops) + 3) |->
        IF i = 2 * Len(ops) + 2 THEN Tok("Semicolon", <<>>)
        ELSE IF i = 2 * Len(ops) + 3 THEN Tok("EOF", <<>>)
        ELSE IF i % 2 = 1 THEN Operand(kinds[(i + 1) \div 2], (i + 1) \div 2)
        ELSE Tok(ops[i \div 2], <<>>)]

InitExpr ==
    /\ \E n \in 0..MaxOps :
          \E ops \in [1..n -> OperatorTokens],
             kinds \in [1..(n + 1) -> {"Identifier", "Number"}] :
                toks = Statement(kinds, ops)
    /\ parse_result = NotParsed
    /\ ParseIdle
    /\ LexIdle
    /\ BackIdle

\* parse_statement on an expression statement; no function is declared
ParseExpressionStatement ==
    /\ toks # <<>>
    /\ parse_result = NotParsed
    /\ parse_result' = parse_expression_statement(toks, {})
    /\ UNCHANGED <<toks, parseVars, lexVars, backVars>>

NextExpr == ParseExpressionStatement

SpecExpr == InitExpr /\ [][NextExpr]_vars

----------------------------------------------------------------------------
(* A file of expression statements parsed from its text: the parser asks   *)
(* the lexer for one token at a time (Parser::new, Parser::eat), so that   *)
(* the lexer has read up to the end of Parser.current_token and no         *)
(* further.                                                                *)

ErrAlphabet == {"a", "1", " ", "\n", "=", ";", "(", "\""}

RECURSIVE ErrStrings(_)
ErrStrings(n) ==
    IF n = 0 THEN {<<>>}
    ELSE {<<c>> \o r : c \in ErrAlphabet, r \in ErrStrings(n - 1)}

\* the calls of next_token until EOF or an error: for each call the token,
\* where it starts in the text and the lexer after the call; a call that
\* fails is entered with a token of type "Error"
RECURSIVE lex_all(_, _)
lex_all(inp, lx) ==
    Only({IF r.error # None
          THEN <<[tok |-> Token("Error", r.error, 0, 0),
                  start |-> token_start(inp, lx), after |-> r.lx]>>
          ELSE <<[tok |-> r.tok, start |-> token_start(inp, lx), after |-> r.lx]>>
               \o (IF r.tok.token_type = "EOF" THEN <<>> ELSE lex_all(inp, r.lx))
            : r \in {next_token(inp, lx)}})

\* parse_program: statements from token i on until EOF; a failed next_token
\* ends the parse with the lexer's error
RECURSIVE parse_program(_, _)
parse_program(ts, i) ==
    IF ts[i].token_type \in {"EOF", "Error"} THEN Parsed(NoNode, i)
    ELSE Only({IF r.error # None THEN r ELSE parse_program(ts, r.pos)
            : r \in {eat(ts, parse_expression(ts, i, {}), "Semicolon")}})

InitErr ==
    /\ input \in UNION {ErrStrings(n) : n \in 0..MaxLen}
    /\ lexer = Lexer
    /\ tokens = <<>>
    /\ lex_status = "lexing"
    /\ toks = <<>>
    /\ parse_result = NotParsed
    /\ ParseIdle
    /\ BackIdle

\* compile: Parser::new and parse_program on the text.  Afterwards tokens
\* are the tokens the parser has asked for, the last one being
\* Parser.current_token, and lexer is the lexer as the parser left it.
ParseText ==
    /\ lex_status = "lexing"
    /\ parse_result = NotParsed
    /\ \E all \in {lex_all(input, Lexer)} :
          \E ts \in {[i \in 1..Len(all) |-> all[i].tok]} :
             \E r \in {parse_program(ts, 1)} :
                /\ parse_result' = r
                /\ toks' = SubSeq(ts, 1, r.pos)
                /\ tokens' = [i \in 1..r.pos |->
                                 [tok |-> all[i].tok, start |-> all[i].start]]
                /\ lexer' = all[r.pos].after
                /\ lex_status' =
                      IF ts[r.pos].token_type = "Error" THEN ts[r.pos].value
                      ELSE IF ts[r.pos].token_type = "EOF" THEN "eof" ELSE "lexing"
    /\ UNCHANGED <<input, parseVars, backVars>>

NextErr == ParseText

SpecErr == InitErr /\ [][NextErr]_vars

----------------------------------------------------------------------------
(* The code generator (codegen.rs).  The syntax-tree nodes that only       *)
(* statements produce, in the shape [node, value, kids] of the expression  *)
(* nodes above.                                                            *)

\* a Vec that is a field of a node: parameter names, operands, clobbers
List(tag, items) == [node |-> tag, value |-> "", kids |-> items]

Block(statements) == [node |-> "Block", value |-> "", kids |-> statements]

\* AstNode::If; else_branch is <<>> (None) or <<node>> (Some)
If(condition, then_branch, else_branch) ==
    [node |-> "If", value |-> "", kids |-> <<condition, then_branch>> \o else_branch]

While(condition, body) ==
    [node |-> "While", value |-> "", kids |-> <<condition, body>>]

\* AstNode::Return; v is <<>> (None) or <<node>> (Some)
Return(v) == [node |-> "Return", value |-> "", kids |-> v]

\* AstNode::FunctionDecl(name, params, body)
FunctionDeclNode(name, params, body) ==
    [node |-> "FunctionDecl", value |-> name,
     kids |-> <<List("params", [i \in 1..Len(params) |-> Variable(params[i])]), body>>]

\* AstNode::FunctionPredecl(name, params)
FunctionPredeclNode(name, params) ==
    [node |-> "FunctionPredecl", value |-> name,
     kids |-> <<List("params", [i \in 1..Len(params) |-> Variable(params[i])])>>]

\* one (constraint, expression) pair of AstNode::InlineAsm
AsmOperand(constraint, expr) ==
    [node |-> "operand", value |-> constraint, kids |-> <<Variable(expr)>>]

\* AstNode::InlineAsm; template is the sequence of the lines of the template
\* text, outputs and inputs are sequences of AsmOperand, clobbers of strings
InlineAsm(template, outputs, inputs, clobbers) ==
    [node |-> "InlineAsm", value |-> "",
     kids |-> <<List("template", [i \in 1..Len(template) |-> StringLiteral(template[i])]),
                List("outputs", outputs), List("inputs", inputs),
                List("clobbers", [i \in 1..Len(clobbers) |-> StringLiteral(clobbers[i])])>>]

\* an emitted line is [op, a, b]: the mnemonic (or "label", "directive",
\* "comment", "asm", "" for an empty line) and its operands in AT&T order
NoOperand == [kind |-> "none", name |-> "", off |-> 0]
Imm(n) == [kind |-> "imm", name |-> "", off |-> n]
Reg(r) == [kind |-> "reg", name |-> r, off |-> 0]
Mem(off, r) == [kind |-> "mem", name |-> r, off |-> off]
Indexed(r) == [kind |-> "indexed", name |-> r, off |-> 0]
Sym(name) == [kind |-> "sym", name |-> name, off |-> 0]
Numbered(prefix, n) == [kind |-> "numbered", name |-> prefix, off |-> n]
Text(t) == [kind |-> "text", name |-> t, off |-> 0]

Ins(op, a, b) == [op |-> op, a |-> a, b |-> b]
Ins1(op, a) == Ins(op, a, NoOperand)
Ins0(op) == Ins(op, NoOperand, NoOperand)
LabelLine(sym) == Ins1("label", sym)

\* the i64 of AstNode::Number as pushq prints it; v is the digit sequence
\* the lexer produced
RECURSIVE NumberValue(_)
NumberValue(v) ==
    IF v = <<>> THEN 0
    ELSE 10 * NumberValue(SubSeq(v, 1, Len(v) - 1)) + DigitValue(v[Len(v)])

\* CodeGenerator::new gone wrong: the generator of the run before is used
\* again, its label_count, var_map and current_stack_offset as they are
CodeGenerator_reused(is_main_file) ==
    IF generator = <<>>
    THEN [assembly |-> <<>>, label_count |-> 0, var_map |-> <<>>,
          current_stack_offset |-> 0, string_literals |-> <<>>,
          is_main_file |-> is_main_file, panicked |-> FALSE]
    ELSE [generator EXCEPT !.is_main_file = is_main_file, !.panicked = FALSE]

\* CodeGenerator::new; panicked is not a field of the struct: it records
\* that generate_node panicked, after which nothing of the run counts
CodeGenerator(is_main_file) ==
    [assembly |-> <<>>, label_count |-> 0, var_map |-> <<>>,
     current_stack_offset |-> 0, string_literals |-> <<>>,
     is_main_file |-> is_main_file, panicked |-> FALSE]

\* CodeGenerator::emit
emit(g, line) == [g EXCEPT !.assembly = Append(@, line)]

\* several emit calls in a row
emit_lines(g, lines) == [g EXCEPT !.assembly = @ \o lines]

\* CodeGenerator::get_new_label: the generator afterwards; the label it
\* returns is .L<g.label_count>
get_new_label_same(g) == g

get_new_label(g) == [g EXCEPT !.label_count = @ + 1]

\* CodeGenerator::get_var_location: the generator afterwards and the offset
get_var_location(g, name) ==
    IF name \in DOMAIN g.var_map
    THEN [g |-> g, offset |-> g.var_map[name]]
    ELSE [g |-> [g EXCEPT !.current_stack_offset = @ - 8,
                          !.var_map = (name :> (g.current_stack_offset - 8)) @@ @],
          offset |-> g.current_stack_offset - 8]

\* CodeGenerator::add_string_literal: the generator afterwards; the index it
\* returns is Len(g.string_literals)
add_string_literal(g, str) == [g EXCEPT !.string_literals = Append(@, str)]

\* Iterator::position over string_literals, 0-based; -1 for None
position(lits, str) ==
    IF \E i \in 1..Len(lits) : lits[i] = str
    THEN (CHOOSE i \in 1..Len(lits) :
            lits[i] = str /\ \A j \in 1..(i - 1) : lits[j] # str) - 1
    ELSE -1

RECURSIVE collect_string_literals(_, _), collect_all(_, _)

\* collect_string_literals over the nodes of a Vec, in order
collect_all(g0, nodes) ==
    IF nodes = <<>> THEN g0
    ELSE Only({collect_all(g, Tail(nodes))
          : g \in {collect_string_literals(g0, Head(nodes))}})

\* CodeGenerator::collect_string_literals: the `_ => {}` arm covers Return,
\* ArrayIndex, ArrayAssignment, InlineAsm, Number, Variable, FunctionPredecl
collect_string_literals(g, node) ==
    CASE node.node = "StringLiteral" -> add_string_literal(g, node.value)
      [] node.node \in {"Block", "If", "While", "BinaryOp", "Assignment",
                        "FunctionCall"} -> collect_all(g, node.kids)
      [] node.node = "FunctionDecl" -> collect_string_literals(g, node.kids[2])
      [] OTHER -> g

\* the registers of the first six arguments, in order
ArgRegisters == <<"rdi", "rsi", "rdx", "rcx", "r8", "r9">>

\* the register table of the inline-asm operands
AsmRegisters == <<"rax", "rbx", "rcx", "rdx">>

\* generate_node, BinaryOp: the lines between the two pops and the push for
\* the operators that need no label
OperatorLines ==
    [op \in {"Add", "Subtract", "Multiply", "Divide", "Equals", "NotEquals",
             "Less", "Greater", "LessEqual", "GreaterEqual"} |->
        CASE op = "Add" -> <<Ins("addq", Reg("rcx"), Reg("rax"))>>
          [] op = "Subtract" -> <<Ins("subq", Reg("rcx"), Reg("rax"))>>
          [] op = "Multiply" -> <<Ins("imulq", Reg("rcx"), Reg("rax"))>>
          [] op = "Divide" -> <<Ins0("cqo"), Ins1("idivq", Reg("rcx"))>>
          [] OTHER ->
                <<Ins("cmpq", Reg("rcx"), Reg("rax")),
                  Ins1(CASE op = "Equals" -> "sete" [] op = "NotEquals" -> "setne"
                         [] op = "Less" -> "setl" [] op = "Greater" -> "setg"
                         [] op = "LessEqual" -> "setle" [] OTHER -> "setge",
                       Reg("al")),
                  Ins("movzbq", Reg("al"), Reg("rax"))>>]

\* the frame set-up shared by a function prologue, _start and __init_<n>
FrameSetup ==
    <<Ins1("pushq", Reg("rbp")), Ins("movq", Reg("rsp"), Reg("rbp")),
      Ins("subq", Imm(256), Reg("rsp"))>>

\* the frame tear-down of a function epilogue, a return and __init_<n>
FrameReturn ==
    <<Ins("movq", Reg("rbp"), Reg("rsp")), Ins1("popq", Reg("rbp")), Ins0("ret")>>

\* generate_node, FunctionDecl: "Store parameters in stack" for parameter
\* number i (0-based) whose slot is at offset
store_parameter(g, i, offset) ==
    IF i < 6
    THEN emit(g, Ins("movq", Reg(ArgRegisters[i + 1]), Mem(offset, "rbp")))
    ELSE emit_lines(g, <<Ins("movq", Mem((i - 6 + 2) * 8, "rbp"), Reg("rax")),
                         Ins("movq", Reg("rax"), Mem(offset, "rbp"))>>)

RECURSIVE store_parameters(_, _, _)
store_parameters(g0, params, i) ==
    IF i >= Len(params) THEN g0
    ELSE Only({store_parameters(store_parameter(loc.g, i, loc.offset), params, i + 1)
          : loc \in {get_var_location(g0, params[i + 1].value)}})

\* generate_node, FunctionCall: "Pop arguments into registers"
pop_arguments(n) ==
    [i \in 1..(IF n < 6 THEN n ELSE 6) |-> Ins1("popq", Reg(ArgRegisters[i]))]

\* generate_node, InlineAsm: the pushes (restore = FALSE) or pops of the
\* clobbered registers, "memory" and "cc" left out
RECURSIVE clobber_lines(_, _)
clobber_lines(clobbers, restore) ==
    IF clobbers = <<>> THEN <<>>
    ELSE LET c == Head(clobbers).value
             line == IF c \in {"memory", "cc"} THEN <<>>
                     ELSE <<Ins1(IF restore THEN "popq" ELSE "pushq", Reg(c))>>
         IN  IF restore THEN clobber_lines(Tail(clobbers), restore) \o line
             ELSE line \o clobber_lines(Tail(clobbers), restore)

\* generate_node, InlineAsm: the loads of the input operands (output = FALSE)
\* or the stores of the output operands from position i (0-based) on.  The
\* table has four registers: indexing it at 4 or more panics.
RECURSIVE operand_lines(_, _, _, _)
operand_lines(g, operands, i, output) ==
    IF i >= Len(operands) THEN g
    ELSE LET constraint == operands[i + 1].value
             expr == operands[i + 1].kids[1].value
         IN  IF constraint = (IF output THEN "=r" ELSE "r") /\ i >= Len(AsmRegisters)
             THEN [g EXCEPT !.panicked = TRUE]
             ELSE LET reg == IF constraint = (IF output THEN "=r" ELSE "r")
                             THEN AsmRegisters[i + 1] ELSE "rax"
                      line == IF output
                              THEN Ins("movq", Reg(reg), Mem(g.var_map[expr], "rbp"))
                              ELSE Ins("movq", Mem(g.var_map[expr], "rbp"), Reg(reg))
                  IN  operand_lines(IF expr \in DOMAIN g.var_map THEN emit(g, line)
                                    ELSE g,
                                    operands, i + 1, output)

\* generate_node, FunctionDecl, "Restore old state": g is the generator at
\* the end of the function, old the one saved on entry.  The first
\* definition is the generator that restores nothing.
restore_state_dropped(g, old) == g

restore_state(g, old) ==
    [g EXCEPT !.var_map = old.var_map,
              !.current_stack_offset = old.current_stack_offset]

RECURSIVE generate_node(_, _), generate_nodes(_, _)

\* generate_node over the nodes of a Vec, in order
generate_nodes(g0, nodes) ==
    IF nodes = <<>> THEN g0
    ELSE Only({generate_nodes(g, Tail(nodes))
          : g \in {generate_node(g0, Head(nodes))}})

\* the elements of a Vec in reverse order
Reverse(s) == [i \in 1..Len(s) |-> s[Len(s) + 1 - i]]

\* CodeGenerator::generate_node
generate_node(g0, node) ==
    CASE node.node = "Number" ->
            emit(g0, Ins1("pushq", Imm(NumberValue(node.value))))
      [] node.node = "Variable" ->
            Only({emit(loc.g, Ins1("pushq", Mem(loc.offset, "rbp")))
              : loc \in {get_var_location(g0, node.value)}})
      [] node.node = "StringLiteral" ->
            LET idx == position(g0.string_literals, node.value)
                index == IF idx >= 0 THEN idx ELSE Len(g0.string_literals)
                g == IF idx >= 0 THEN g0 ELSE add_string_literal(g0, node.value)
            IN  emit_lines(g, <<Ins("leaq", Numbered("str", index), Reg("rax")),
                                Ins1("pushq", Reg("rax"))>>)
      [] node.node = "Assignment" ->
            Only({emit_lines(loc.g, <<Ins1("popq", Reg("rax")),
                                      Ins("movq", Reg("rax"), Mem(loc.offset, "rbp"))>>)
              : loc \in {get_var_location(generate_node(g0, node.kids[1]),
                                          node.value)}})
      [] node.node = "BinaryOp" ->
            Only({IF node.value \in DOMAIN OperatorLines
                  THEN emit_lines(g, <<Ins1("popq", Reg("rcx")), Ins1("popq", Reg("rax"))>>
                                     \o OperatorLines[node.value]
                                     \o <<Ins1("pushq", Reg("rax"))>>)
                  ELSE emit_lines(get_new_label(g),
                         <<Ins1("popq", Reg("rcx")), Ins1("popq", Reg("rax")),
                           Ins("testq", Reg("rax"), Reg("rax")),
                           Ins1(IF node.value = "And" THEN "jz" ELSE "jnz",
                                Numbered(".L", g.label_count)),
                           Ins("testq", Reg("rcx"), Reg("rcx")),
                           Ins1("setne", Reg("al")),
                           Ins("movzbq", Reg("al"), Reg("rax")),
                           LabelLine(Numbered(".L", g.label_count)),
                           Ins1("pushq", Reg("rax"))>>)
              : g \in {generate_nodes(g0, node.kids)}})
      [] node.node = "If" ->
            LET else_label == Numbered(".L", g0.label_count)
                end_label == Numbered(".L", g0.label_count + 1)
            IN  Only({
                Only({
                Only({emit(g3, LabelLine(end_label))
                  : g3 \in {generate_nodes(emit(g2, LabelLine(else_label)),
                                           SubSeq(node.kids, 3, Len(node.kids)))}})
                  : g2 \in {emit(generate_node(g1, node.kids[2]),
                                 Ins1("jmp", end_label))}})
                  : g1 \in {emit_lines(
                              generate_node(get_new_label(get_new_label(g0)),
                                            node.kids[1]),
                              <<Ins1("popq", Reg("rax")),
                                Ins("testq", Reg("rax"), Reg("rax")),
                                Ins1("je", else_label)>>)}})
      [] node.node = "While" ->
            LET start_label == Numbered(".L", g0.label_count)
                end_label == Numbered(".L", g0.label_count + 1)
            IN  Only({
                Only({emit_lines(g2, <<Ins1("jmp", start_label), LabelLine(end_label)>>)
                  : g2 \in {generate_node(g1, node.kids[2])}})
                  : g1 \in {emit_lines(
                              generate_node(
                                  emit(get_new_label(get_new_label(g0)),
                                       LabelLine(start_label)),
                                  node.kids[1]),
                              <<Ins1("popq", Reg("rax")),
                                Ins("testq", Reg("rax"), Reg("rax")),
                                Ins1("je", end_label)>>)}})
      [] node.node = "Block" -> generate_nodes(g0, node.kids)
      [] node.node = "FunctionDecl" ->
            Only({restore_state(emit_lines(g, FrameReturn), g0)
              : g \in {generate_node(
                          store_parameters(
                              emit_lines([g0 EXCEPT !.var_map = <<>>,
                                                    !.current_stack_offset = 0],
                                         <<LabelLine(Sym(node.value))>> \o FrameSetup),
                              node.kids[1].kids, 0),
                          node.kids[2])}})
      [] node.node = "FunctionPredecl" -> g0
      [] node.node = "FunctionCall" ->
            Only({emit_lines(g, pop_arguments(Len(node.kids))
                                \o <<Ins1("call", Sym(node.value)),
                                     Ins1("pushq", Reg("rax"))>>)
              : g \in {generate_nodes(g0, Reverse(node.kids))}})
      [] node.node = "Return" ->
            Only({emit_lines(IF node.kids = <<>> THEN g
                             ELSE emit(g, Ins1("popq", Reg("rax"))),
                             FrameReturn)
              : g \in {generate_nodes(g0, node.kids)}})
      [] node.node = "ArrayIndex" ->
            Only({emit_lines(g, <<Ins1("popq", Reg("rcx")), Ins1("popq", Reg("rax")),
                                  Ins("leaq", Indexed("rax,rcx"), Reg("rax")),
                                  Ins("movzbq", Indexed("rax"), Reg("rax")),
                                  Ins1("pushq", Reg("rax"))>>)
              : g \in {generate_nodes(g0, node.kids)}})
      [] node.node = "ArrayAssignment" ->
            Only({emit_lines(g, <<Ins1("popq", Reg("rcx")), Ins1("popq", Reg("rax")),
                                  Ins1("popq", Reg("rdx")),
                                  Ins("movb", Reg("dl"), Indexed("rax,rcx"))>>)
              : g \in {generate_nodes(g0, <<node.kids[3], node.kids[1], node.kids[2]>>)}})
      [] node.node = "InlineAsm" ->
            LET template == node.kids[1].kids
                output_ops == node.kids[2].kids
                input_ops == node.kids[3].kids
                clobbers == node.kids[4].kids
            IN  Only({
                Only({emit_lines(g2, clobber_lines(clobbers, TRUE)
                                     \o <<Ins1("comment", Text("End inline assembly"))>>)
                  : g2 \in {operand_lines(
                              emit_lines(g1, [i \in 1..Len(template) |->
                                                Ins1("asm", Text(template[i].value))]),
                              output_ops, 0, TRUE)}})
                  : g1 \in {operand_lines(
                              emit_lines(g0,
                                  <<Ins1("comment", Text("Begin inline assembly"))>>
                                  \o clobber_lines(clobbers, FALSE)),
                              input_ops, 0, FALSE)}})

IsFunctionDecl(node) == node.node = "FunctionDecl"

IsNotFunctionDecl(node) == node.node # "FunctionDecl"

\* generate, "Data section": one label and one .string per pool entry
data_section(lits) ==
    IF lits = <<>> THEN <<>>
    ELSE <<Ins1("directive", Text(".section .data"))>>
         \o [k \in 1..(2 * Len(lits)) |->
               IF k % 2 = 1 THEN LabelLine(Numbered("str", (k - 1) \div 2))
               ELSE Ins1("string", Text(lits[k \div 2]))]

\* generate, "Exit": the end of _start
ExitLines ==
    <<Ins0(""), Ins("movq", Reg("rbp"), Reg("rsp")), Ins1("popq", Reg("rbp")),
      Ins("movq", Imm(60), Reg("rax")), Ins("xorq", Reg("rdi"), Reg("rdi")),
      Ins0("syscall")>>

\* generate, `has_non_function_code`
has_non_function_code(ast_nodes) ==
    \E i \in 1..Len(ast_nodes) : ~IsFunctionDecl(ast_nodes[i])

\* CodeGenerator::generate on the generator g0: the generator afterwards,
\* whose assembly is the String returned
generate(g0, ast_nodes) ==
    Only({
    Only({
        IF g2.is_main_file
        THEN emit_lines(
                generate_nodes(
                    emit_lines(g2, <<Ins0(""), Ins1("directive", Text(".global _start")),
                                     Ins0(""), LabelLine(Sym("_start"))>> \o FrameSetup),
                    SelectSeq(ast_nodes, IsNotFunctionDecl)),
                ExitLines)
        ELSE IF has_non_function_code(ast_nodes)
        THEN emit_lines(
                generate_nodes(
                    emit_lines(get_new_label(g2),
                               <<Ins0(""), LabelLine(Numbered("__init_", g2.label_count))>>
                               \o FrameSetup),
                    SelectSeq(ast_nodes, IsNotFunctionDecl)),
                FrameReturn)
        ELSE g2
      : g2 \in {generate_nodes(
                  emit_lines(g1, data_section(g1.string_literals)
                                 \o <<Ins0(""), Ins1("directive", Text(".section .text"))>>),
                  SelectSeq(ast_nodes, IsFunctionDecl))}})
      : g1 \in {collect_all([g0 EXCEPT !.assembly = <<>>, !.string_literals = <<>>],
                            ast_nodes)}})

----------------------------------------------------------------------------
(* The syntax trees handed to the code generator *)

One == Number(<<"1">>)

\* expressions as parse_expression builds them
GenExpressions ==
    {One, Variable("x"), StringLiteral("s"),
     BinaryOp(Variable("x"), "Add", One), BinaryOp(One, "And", Variable("x")),
     BinaryOp(StringLiteral("s"), "Equals", StringLiteral("t")),
     Assignment("x", One), BinaryOp(Assignment("x", One), "Add", One),
     ArrayIndex(Variable("x"), One), ArrayAssignment(Variable("x"), One, One),
     CallNode("f", <<>>), CallNode("f", <<One>>), CallNode("f", <<Variable("x"), One>>),
     CallNode("f", <<One, One, One, One, One, One, One>>)}

\* asm statements as parse_inline_asm builds them
GenAsm ==
    {InlineAsm(<<"nop">>, <<>>, <<>>, <<>>),
     InlineAsm(<<"nop">>, <<AsmOperand("=r", "x")>>, <<AsmOperand("r", "x")>>, <<>>),
     InlineAsm(<<"nop", "nop">>, <<AsmOperand("=m", "x")>>,
               <<AsmOperand("r", "x"), AsmOperand("m", "x")>>, <<"rbx", "memory">>),
     InlineAsm(<<"nop">>, <<>>,
               <<AsmOperand("r", "x"), AsmOperand("r", "x"), AsmOperand("r", "x"),
                 AsmOperand("r", "x"), AsmOperand("r", "x")>>, <<>>)}

\* statements that may stand in a function body
GenStatements ==
    GenExpressions \cup GenAsm
    \cup {Return(<<>>), Return(<<StringLiteral("s")>>), Return(<<Variable("x")>>)}

\* the bodies of the function definitions
GenBodies ==
    {<<>>} \cup {<<st>> : st \in {One, StringLiteral("s"), Return(<<Variable("a")>>)} \cup GenAsm}
    \cup {<<Assignment("x", One), a>> : a \in GenAsm}

\* the bytes a frame reserves for slots (`subq $256, %rsp`)
ReservedBytes == 256

\* a parameter list with one name more than the reserved bytes have slots
ManyParameters == [i \in 1..(ReservedBytes \div 8 + 1) |-> "p" \o ToString(i)]

\* statements that may stand at the top level of a file
GenTopLevel ==
    GenStatements
    \cup {If(Variable("x"), Block(<<st>>), <<>>) : st \in {One, Return(<<>>)}}
    \cup {If(BinaryOp(One, "And", Variable("x")), One, <<StringLiteral("s")>>),
          While(Variable("x"), Block(<<Assignment("x", One)>>)),
          FunctionPredeclNode("f", <<>>), FunctionPredeclNode("g", <<"a">>),
          If(Variable("x"),
             Block(<<FunctionDeclNode("g", <<"a">>, Block(<<Variable("x")>>))>>), <<>>)}
    \cup {FunctionDeclNode("f", params, Block(body)) :
            params \in {<<>>, <<"a", "b">>}, body \in GenBodies}
    \cup {FunctionDeclNode("f", ManyParameters, Block(<<>>))}

RECURSIVE Programs(_)
Programs(n) ==
    IF n = 0 THEN {<<>>}
    ELSE {<<>>} \cup {<<st>> \o rest : st \in GenTopLevel, rest \in Programs(n - 1)}

\* the variables of the code generator's specification while a
\* specification is about something else in the back end
FrontIdle ==
    /\ ParseIdle
    /\ LexIdle
    /\ ExprIdle

InitGen ==
    /\ program \in Programs(MaxNodes)
    /\ main_file \in BOOLEAN
    /\ generator = <<>>
    /\ results = <<>>
    /\ cpu = CpuIdle
    /\ process = CliIdle
    /\ FrontIdle

\* what compile() gets from one run: the assembly, or nothing when the
\* generator panicked
Panic == <<Ins0("panic")>>

\* main.rs compile(): CodeGenerator::new(is_main_file) and generate(&ast);
\* the compiler is run at most MaxRuns times on the same input
Generate ==
    /\ Len(results) < MaxRuns
    /\ LET g == generate(CodeGenerator(main_file), program)
       IN  /\ generator' = g
           /\ results' = Append(results, IF g.panicked THEN Panic ELSE g.assembly)
    /\ UNCHANGED <<program, main_file, cpu, process, parseVars, lexVars, exprVars>>

NextGen == Generate

SpecGen == InitGen /\ [][NextGen]_vars

----------------------------------------------------------------------------
(* The emitted lines run as x86-64 code.  A value is [tag, v]: a known     *)
(* integer, the return address pushed by the call at line v, or a value    *)
(* nothing is known about.  Whatever arithmetic computes is unknown, and a *)
(* conditional jump may go either way.                                     *)

Known(n) == [tag |-> "int", v |-> n]
\* a value of which only the low byte is known
LowByte(n) == [tag |-> "low", v |-> n]
ReturnAddress(line) == [tag |-> "ret", v |-> line]
Unknown == [tag |-> "unknown", v |-> 0]

Registers == {"rax", "rbx", "rcx", "rdx", "rdi", "rsi", "r8", "r9", "rsp", "rbp"}

\* the 64-bit register an operand register is part of
FullRegister(r) ==
    CASE r = "al" -> "rax" [] r = "dl" -> "rdx" [] OTHER -> r

\* the line a label stands on, 0 when the code does not define it
LineOfLabel(code, sym) ==
    IF \E i \in 1..Len(code) : code[i] = LabelLine(sym)
    THEN CHOOSE i \in 1..Len(code) : code[i] = LabelLine(sym)
    ELSE 0

\* the process as the kernel starts it at _start
Boot(code) ==
    [code |-> code, pc |-> LineOfLabel(code, Sym("_start")),
     regs |-> [r \in Registers |-> IF r = "rsp" THEN Known(0) ELSE Unknown],
     mem |-> <<>>, depth |-> 0, flags |-> NoFlags, state |-> "running"]

\* the 8 bytes at an address
Load(c, address) ==
    IF address.tag = "int" /\ address.v \in DOMAIN c.mem THEN c.mem[address.v]
    ELSE Unknown

Store(c, address, value) ==
    IF address.tag = "int"
    THEN [c EXCEPT !.mem = (address.v :> value) @@ @]
    ELSE c

\* the address off(%r)
Address(c, operand) ==
    IF c.regs[operand.name].tag = "int"
    THEN Known(c.regs[operand.name].v + operand.off)
    ELSE Unknown

\* the value of a source operand
Value(c, operand) ==
    CASE operand.kind = "imm" -> Known(operand.off)
      [] operand.kind = "reg" -> c.regs[FullRegister(operand.name)]
      [] operand.kind = "mem" -> Load(c, Address(c, operand))
      [] OTHER -> Unknown

\* a value written to a destination operand
Write(c, operand, value) ==
    CASE operand.kind = "reg" ->
            [c EXCEPT !.regs[FullRegister(operand.name)] = value]
      [] operand.kind = "mem" -> Store(c, Address(c, operand), value)
      [] OTHER -> c

Push(c, value) ==
    LET top == Address(c, Mem(-8, "rsp"))
    IN  Store([c EXCEPT !.regs["rsp"] = top], top, value)

Next1(c) == [c EXCEPT !.pc = @ + 1]

Jumps == {"jmp", "je", "jz", "jnz"}

\* the flags after a subtraction or a test whose result is the difference,
\* or the value, d
Flags(d) ==
    IF d.tag = "int" THEN [known |-> TRUE, zf |-> d.v = 0, lt |-> d.v < 0]
    ELSE NoFlags

\* the difference b - a of two values
Difference(a, b) ==
    IF a.tag = "int" /\ b.tag = "int" THEN Known(b.v - a.v) ELSE Unknown

\* the condition a set<cc> instruction or a conditional jump tests
Condition(op, flags) ==
    CASE op \in {"sete", "je", "jz"} -> flags.zf
      [] op \in {"setne", "jnz"} -> ~flags.zf
      [] op = "setl" -> flags.lt
      [] op = "setge" -> ~flags.lt
      [] op = "setle" -> flags.lt \/ flags.zf
      [] op = "setg" -> ~flags.lt /\ ~flags.zf
      [] OTHER -> TRUE

SetOps == {"sete", "setne", "setl", "setg", "setle", "setge"}

\* a register after its low byte was set to bit
WithLowByte(value, bit) ==
    IF value.tag = "int" THEN Known(value.v - (value.v % 256) + bit)
    ELSE LowByte(bit)

\* a value zero-extended from its low byte
ZeroExtended(value) ==
    CASE value.tag = "int" -> Known(value.v % 256)
      [] value.tag = "low" -> Known(value.v)
      [] OTHER -> Unknown

\* the machine after the line at pc, for the lines that are no jump
Execute(c) ==
    LET line == c.code[c.pc]
    IN  CASE line.op = "pushq" -> Next1(Push(c, Value(c, line.a)))
          [] line.op = "popq" ->
                Next1([Write(c, line.a, Load(c, c.regs["rsp"]))
                         EXCEPT !.regs["rsp"] = Address(c, Mem(8, "rsp"))])
          [] line.op = "movq" -> Next1(Write(c, line.b, Value(c, line.a)))
          [] line.op = "subq" /\ line.a.kind = "imm" ->
                Next1([Write(c, line.b, Address(c, Mem(-line.a.off, line.b.name)))
                         EXCEPT !.flags = NoFlags])
          [] line.op = "call" ->
                IF LineOfLabel(c.code, line.a) = 0
                THEN Next1(Write(c, Reg("rax"), Unknown))
                ELSE [Push(c, ReturnAddress(c.pc + 1))
                        EXCEPT !.pc = LineOfLabel(c.code, line.a), !.depth = @ + 1]
          [] line.op = "ret" ->
                LET target == Load(c, c.regs["rsp"])
                IN  IF c.depth = 0 THEN [c EXCEPT !.state = "returned"]
                    ELSE IF target.tag # "ret" THEN [c EXCEPT !.state = "crashed"]
                    ELSE [c EXCEPT !.pc = target.v, !.depth = @ - 1,
                                   !.regs["rsp"] = Address(c, Mem(8, "rsp"))]
          [] line.op = "syscall" -> [c EXCEPT !.state = "exited"]
          [] line.op \in {"label", "directive", "comment", "asm", "string", ""} ->
                Next1(c)
          [] line.op = "cmpq" ->
                Next1([c EXCEPT !.flags =
                          Flags(Difference(Value(c, line.a), Value(c, line.b)))])
          [] line.op = "testq" ->
                Next1([c EXCEPT !.flags = IF line.a = line.b
                                          THEN Flags(Value(c, line.a)) ELSE NoFlags])
          [] line.op \in SetOps ->
                Next1(IF c.flags.known
                      THEN Write(c, line.a,
                                 WithLowByte(Value(c, line.a),
                                             IF Condition(line.op, c.flags) THEN 1 ELSE 0))
                      ELSE Write(c, line.a, Unknown))
          [] line.op = "movzbq" -> Next1(Write(c, line.b, ZeroExtended(Value(c, line.a))))
          [] line.op = "idivq" ->
                Next1([Write(Write(c, Reg("rax"), Unknown), Reg("rdx"), Unknown)
                         EXCEPT !.flags = NoFlags])
          [] line.op = "cqo" -> Next1(Write(c, Reg("rdx"), Unknown))
          [] line.op = "xorq" /\ line.a = line.b ->
                Next1([Write(c, line.b, Known(0)) EXCEPT !.flags = Flags(Known(0))])
          [] line.b = NoOperand -> Next1([Write(c, line.a, Unknown) EXCEPT !.flags = NoFlags])
          [] OTHER -> Next1([Write(c, line.b, Unknown) EXCEPT !.flags = NoFlags])

----------------------------------------------------------------------------
(* A call of a function with n parameters and n arguments, compiled as     *)
(* main.zed and run                                                        *)

ParameterNames == <<"a", "b", "c", "d", "e", "f", "g", "h", "i">>

\* the body of the called function: one asm statement, which marks the end
\* of the prologue in the emitted lines
CalleeBody == Block(<<InlineAsm(<<"nop">>, <<>>, <<>>, <<>>)>>)

\* the i-th argument expression, whose value is i: the number i or the
\* assignment x = i
Argument(kind, i) ==
    IF kind = "Number" THEN Number(<<ToString(i)>>)
    ELSE Assignment("x", Number(<<ToString(i)>>))

\* the value of an argument expression
ArgumentValue(e) ==
    IF e.node = "Number" THEN NumberValue(e.value) ELSE NumberValue(e.kids[1].value)

CallPrograms ==
    UNION {{<<FunctionDeclNode("f", SubSeq(ParameterNames, 1, n), CalleeBody),
              CallNode("f", [i \in 1..n |-> Argument(kinds[i], i)])>> :
                kinds \in [1..n -> {"Number", "Assignment"}]} :
           n \in 0..MaxArgs}

InitCall ==
    /\ program \in CallPrograms
    /\ main_file = TRUE
    /\ generator = <<>>
    /\ results = <<>>
    /\ cpu = CpuIdle
    /\ process = CliIdle
    /\ FrontIdle

\* the assembled and linked output of the first run is started
Start ==
    /\ results # <<>>
    /\ cpu.state = "idle"
    /\ results[1] # Panic
    /\ LineOfLabel(results[1], Sym("_start")) # 0
    /\ cpu' = Boot(results[1])
    /\ UNCHANGED <<genVars, process, parseVars, lexVars, exprVars>>

\* the processor executes the line at pc
Step ==
    /\ cpu.state = "running"
    /\ cpu.regs["rsp"].tag = "int" => cpu.regs["rsp"].v >= -8 * MaxStack
    /\ LET line == cpu.code[cpu.pc]
       IN  IF line.op \in Jumps
           THEN \E taken \in BOOLEAN :
                   /\ line.op = "jmp" \/ cpu.flags.known
                         => taken = Condition(line.op, cpu.flags)
                   /\ cpu' = [cpu EXCEPT !.pc = IF taken
                                                THEN LineOfLabel(cpu.code, line.a)
                                                ELSE cpu.pc + 1]
           ELSE cpu' = Execute(cpu)
    /\ UNCHANGED <<genVars, process, parseVars, lexVars, exprVars>>

NextCall == Generate \/ Start \/ Step

SpecCall == InitCall /\ [][NextCall]_vars

\* any program compiled as main.zed and run
InitStart ==
    /\ program \in Programs(MaxNodes)
    /\ main_file = TRUE
    /\ generator = <<>>
    /\ results = <<>>
    /\ cpu = CpuIdle
    /\ process = CliIdle
    /\ FrontIdle

SpecStart == InitStart /\ [][NextCall]_vars

----------------------------------------------------------------------------
(* The command line (main.rs main).  process is the run and what it finds:*)
(* args (args[1] is the program name), home (whether $HOME or              *)
(* $USERPROFILE is set), files (the paths fs::read_to_string can read),    *)
(* dirs (the directories that exist), unwritable (the paths fs::write      *)
(* fails on), compile_error (whether lexing or parsing the input fails),   *)
(* done and exit (the exit status once the process has ended).             *)

ArgTokens == {"-o", "--stdlib-path", "main.zed", "out.asm", "std"}

\* the default standard-library root under the home directory
DefaultStd == "~/.zed-lang/std/version/1.0.0"

RECURSIVE ArgLists(_)
ArgLists(n) ==
    IF n = 0 THEN {<<>>}
    ELSE {<<>>} \cup {<<a>> \o rest : a \in ArgTokens, rest \in ArgLists(n - 1)}

\* the exit status of a Rust process that panicked
PanicStatus == 101

\* a program that compiles, and one with five "r" input operands
CliPrograms ==
    {<<One>>,
     <<InlineAsm(<<"nop">>, <<>>,
                 <<AsmOperand("r", "x"), AsmOperand("r", "x"), AsmOperand("r", "x"),
                   AsmOperand("r", "x"), AsmOperand("r", "x")>>, <<>>)>>}

\* main.rs is_main_file; a path here is a file name without directories
is_main_file(filepath) == filepath = "main.zed"

\* main, the `while i < args.len()` loop from index i (0-based) on; st is
\* [input_path, output_path, stdlib_path, exited]
RECURSIVE parse_args(_, _, _)
parse_args(args, i, st) ==
    IF i >= Len(args) THEN st
    ELSE CASE args[i + 1] = "-o" ->
                IF i + 1 < Len(args)
                THEN parse_args(args, i + 2, [st EXCEPT !.output_path = args[i + 2]])
                ELSE [st EXCEPT !.exited = TRUE]
           [] args[i + 1] = "--stdlib-path" ->
                IF i + 1 < Len(args)
                THEN parse_args(args, i + 2, [st EXCEPT !.stdlib_path = args[i + 2]])
                ELSE [st EXCEPT !.exited = TRUE]
           [] OTHER ->
                IF st.input_path = None
                THEN parse_args(args, i + 1, [st EXCEPT !.input_path = args[i + 1]])
                ELSE [st EXCEPT !.exited = TRUE]

\* main: the exit status, the assembly written and the kind of the
\* diagnostic printed ([exit, written, diagnostic])
main(c, ast_nodes) ==
    LET st == parse_args(c.args, 1,
                         [input_path |-> None, output_path |-> None,
                          stdlib_path |-> None, exited |-> FALSE])
        stdlib_path == IF st.stdlib_path # None THEN st.stdlib_path
                       ELSE IF c.home THEN DefaultStd ELSE None
        g == generate(CodeGenerator(is_main_file(st.input_path)), ast_nodes)
        failed == [exit |-> 1, written |-> <<>>, diagnostic |-> "error"]
    IN  IF Len(c.args) < 4 THEN [failed EXCEPT !.diagnostic = "usage"]
        ELSE IF st.exited \/ st.input_path = None \/ st.output_path = None THEN failed
        ELSE IF stdlib_path # None /\ stdlib_path \notin c.dirs \cup c.files THEN failed
        ELSE IF st.input_path \notin c.files THEN failed
        ELSE IF c.compile_error THEN [failed EXCEPT !.diagnostic = "compile"]
        ELSE IF g.panicked
        THEN [exit |-> PanicStatus, written |-> <<>>, diagnostic |-> "panic"]
        ELSE IF st.output_path \in c.unwritable \cup c.dirs THEN failed
        ELSE [exit |-> 0, written |-> <<g.assembly>>, diagnostic |-> "none"]

\* the process after main has ended with r: what it has printed to stderr
\* (for a compile error `e.format_error()`, the error compile returned) and
\* the output file, which only fs::write touches.  The first definition is
\* a process that creates the output file whatever compile returns.
Exited_created(c, r) ==
    [c EXCEPT !.done = TRUE, !.exit = r.exit, !.out_file = "new"]

Exited(c, r) ==
    [c EXCEPT !.done = TRUE,
              !.exit = r.exit,
              !.out_file = IF r.written # <<>> THEN "new" ELSE @,
              !.stderr = CASE r.diagnostic = "none" -> @
                           [] r.diagnostic = "compile" -> Append(@, err)
                           [] OTHER -> Append(@, Error(r.diagnostic, "", "", NoPath))]

InitCli ==
    /\ \E args \in ArgLists(MaxArgv), home_set \in BOOLEAN, compile_error \in BOOLEAN,
          files \in SUBSET {"main.zed"}, dirs \in SUBSET {"std", DefaultStd},
          unwritable \in SUBSET {"out.asm"} :
          process = [args |-> <<"zedc">> \o args, home |-> home_set,
                     files |-> files, dirs |-> dirs, unwritable |-> unwritable,
                     compile_error |-> compile_error, out_file |-> "absent",
                     stderr |-> <<>>, done |-> FALSE, exit |-> 0]
    /\ program \in CliPrograms
    /\ main_file = FALSE
    /\ generator = <<>>
    /\ results = <<>>
    /\ cpu = CpuIdle
    /\ FrontIdle

\* the compiler process runs from start to exit
Main ==
    /\ ~process.done
    /\ LET r == main(process, program)
       IN  /\ process' = Exited(process, r)
           /\ results' = r.written
    /\ UNCHANGED <<program, main_file, generator, cpu, parseVars, lexVars, exprVars>>

NextCli == Main

SpecCli == InitCli /\ [][NextCli]_vars

----------------------------------------------------------------------------
(* One binary operation on two numbers, compiled as main.zed and run *)

\* the operand values: zero, one, and a non-zero value that is not one
LogicValues == {0, 1, 2}

LogicOps ==
    {"And", "Or", "Equals", "NotEquals", "Less", "Greater", "LessEqual", "GreaterEqual"}

InitLogic ==
    /\ \E a, b \in LogicValues, op \in LogicOps :
          program = <<BinaryOp(Number(<<ToString(a)>>), op, Number(<<ToString(b)>>))>>
    /\ main_file = TRUE
    /\ generator = <<>>
    /\ results = <<>>
    /\ cpu = CpuIdle
    /\ process = CliIdle
    /\ FrontIdle

SpecLogic == InitLogic /\ [][NextCall]_vars

----------------------------------------------------------------------------
(* The compilation of main.zed from the command line to the exit: compile  *)
(* parses the unit (NextParse), and main writes the assembly or prints the *)
(* error.                                                                  *)

\* the nodes of the parser's model as the nodes the code generator reads
RECURSIVE AstNodes(_)
AstNodes(nodes) ==
    [i \in 1..Len(nodes) |->
        CASE nodes[i].node = "FunctionPredecl" -> FunctionPredeclNode(nodes[i].name, <<>>)
          [] nodes[i].node = "FunctionCall" -> CallNode(nodes[i].name, <<>>)
          [] OTHER -> FunctionDeclNode(nodes[i].name, <<>>, Block(AstNodes(nodes[i].body)))]

InitCompile ==
    /\ entry = MainFile
    /\ home = NoPath
    /\ cli_stdlib = NoPath
    /\ \E a, b, c \in 0..MaxSize :
          /\ a + b + c <= MaxSize
          /\ \E x \in TopSeqs(a, IncludePaths), y \in TopSeqs(b, IncludePaths),
                z \in TopSeqs(c, IncludePaths) :
                fs = (MainFile :> x) @@ (BFile :> y) @@ (CFile :> z)
    /\ compile
    /\ LexIdle
    /\ ExprIdle
    /\ GenIdle
    /\ cpu = CpuIdle
    /\ \E out_file \in {"absent", "old"} :
          process = [CliIdle EXCEPT !.args = <<"zedc", "main.zed", "-o", "out.asm">>,
                                    !.files = {"main.zed"},
                                    !.out_file = out_file]

\* main after compile has returned: the match on its result
Finish ==
    /\ status \in {"ok", "failed"}
    /\ ~process.done
    /\ \E r \in {main([process EXCEPT !.compile_error = (status = "failed")],
                      AstNodes(ast))} :
          /\ process' = Exited(process, r)
          /\ results' = r.written
    /\ UNCHANGED <<program, main_file, generator, cpu, parseVars, lexVars, exprVars>>

NextCompile == ParseStatement \/ ParseInclude \/ ParseProgramEnd \/ Finish

SpecCompile == InitCompile /\ [][NextCompile]_vars

----------------------------------------------------------------------------
(* The translation unit as it stands on disk, independent of any parse *)

TopIncludes(f) ==
    {canonicalize(Join(Parent(f), fs[f][i].path)) :
        i \in {j \in 1..Len(fs[f]) : fs[f][j].kind = "include"}} \ {NoPath}

RECURSIVE Closure(_)
Closure(S) ==
    LET T == S \cup UNION {TopIncludes(f) : f \in S}
    IN  IF T = S THEN S ELSE Closure(T)

\* the entry file and everything it includes, directly or transitively
Unit == Closure({entry})

RECURSIVE NamesOf(_, _)
NamesOf(stmts, kinds) ==
    IF stmts = <<>> THEN {}
    ELSE LET h == Head(stmts)
         IN  (IF h.kind \in kinds THEN {h.name} ELSE {})
             \cup NamesOf(h.body, kinds) \cup NamesOf(Tail(stmts), kinds)

UnitDeclared == UNION {NamesOf(fs[f], {"predecl", "fn"}) : f \in Unit}
UnitDefined == UNION {NamesOf(fs[f], {"fn"}) : f \in Unit}
UnitCalled == UNION {NamesOf(fs[f], {"call"}) : f \in Unit}

\* number of definitions `fn n(..) {..}` in a statement list, nested included
RECURSIVE DefCount(_, _)
DefCount(stmts, n) ==
    IF stmts = <<>> THEN 0
    ELSE LET h == Head(stmts)
         IN  (IF h.kind = "fn" /\ h.name = n THEN 1 ELSE 0)
             + DefCount(h.body, n) + DefCount(Tail(stmts), n)

\* number of FunctionDecl nodes for n in an AST
RECURSIVE DeclNodes(_, _)
DeclNodes(nodes, n) ==
    IF nodes = <<>> THEN 0
    ELSE LET h == Head(nodes)
         IN  (IF h.node = "FunctionDecl" /\ h.name = n THEN 1 ELSE 0)
             + DeclNodes(h.body, n) + DeclNodes(Tail(nodes), n)

Finished == status # "parsing"

----------------------------------------------------------------------------
(* Claims about the function symbols and the include resolver *)

\* C1: Symbol contract.  A parse that succeeds leaves every declared name of
\* the unit defined and every called name declared; a parse that is rejected
\* for a declared-but-undefined function is a parse of a unit in which some
\* declared name has no definition.
C1_SymbolContract ==
    /\ status = "ok" =>
          UnitDeclared \subseteq UnitDefined /\ UnitCalled \subseteq UnitDeclared
    /\ (status = "failed" /\ err.kind = "declared but not defined") =>
          ~(UnitDeclared \subseteq UnitDefined)

\* C2: 'declared but not defined' is raised for a function only when no file
\* of the whole translation unit holds a definition of that function.
C2_NotDefinedOnlyIfNoDefinitionInUnit ==
    err.kind = "declared but not defined" => err.name \notin UnitDefined

\* C3: the AST returned by a successful parse holds at most one FunctionDecl
\* node per function name.
C3_AtMostOneDefinition ==
    status = "ok" => \A n \in Names : DeclNodes(ast, n) <= 1

\* C4: a predeclaration succeeds whatever the symbol state of its name, adds
\* the name to declared_functions and leaves defined_functions unchanged.
C4_PredeclSucceedsInEveryState ==
    [][(AtStatement /\ CurrentStmt.kind = "predecl") =>
          /\ status' = "parsing"
          /\ stack'[Len(stack)].declared_functions =
                Top.declared_functions \cup {CurrentStmt.name}
          /\ stack'[Len(stack)].defined_functions = Top.defined_functions]_vars

MutualInclude(a, b) == a # b /\ b \in TopIncludes(a) /\ a \in TopIncludes(b)

\* the unit has no symbol error of its own: every declared name is defined,
\* exactly once, and no call was rejected
SymbolClean ==
    /\ UnitDeclared \subseteq UnitDefined
    /\ \A n \in Names : \A f \in Unit : DefCount(fs[f], n) <= 1
    /\ \A n \in Names : Cardinality({f \in Unit : DefCount(fs[f], n) > 0}) <= 1
    /\ err.kind # "undeclared"

\* C5: when the entry file and another file include each other, compilation
\* fails with 'circular include detected'.
C5_MutualIncludeIsCircular ==
    (Finished /\ SymbolClean /\ \E o \in Files : MutualInclude(entry, o)) =>
        (status = "failed" /\ err.kind = "circular include detected")

\* C6: a successful parse has lexed every file at most once; an @include of
\* a path already in included_files fails with 'circular include detected';
\* included_files of the parser at work never loses an element, through the
\* clone into a child and the merge back into the parent.
C6_EachFileParsedOnce ==
    [][/\ status' = "ok" => \A f \in DOMAIN fs : parsed'[f] <= 1
       /\ (AtStatement /\ CurrentStmt.kind = "include"
           /\ canonicalize(Join(Parent(Top.file), CurrentStmt.path))
                 \in Top.included_files) =>
             (status' = "failed" /\ err'.kind = "circular include detected")
       /\ status' = "parsing" =>
             Top.included_files \subseteq stack'[Len(stack')].included_files]_vars

\* a chain main -> b -> c (or any other order) was parsed to the end
C6_Witness ==
    /\ status = "ok"
    /\ \A f \in DOMAIN fs : parsed[f] = 1
    /\ \E f \in DOMAIN fs : TopIncludes(f) # {} /\ f # entry

\* the standard-library root the compiler was configured with
ConfiguredRoot ==
    IF cli_stdlib # NoPath THEN cli_stdlib ELSE get_default_stdlib_path(home)

\* C7: the file an @include opens is <configured stdlib root>/X for the path
\* "std/X" (the --stdlib-path value when given, the $HOME-based default
\* otherwise) and <directory of the including file>/path for any other path.
C7_IncludeResolution ==
    [][(AtStatement /\ CurrentStmt.kind = "include" /\ Len(stack') > Len(stack)) =>
          stack'[Len(stack')].file =
             IF starts_with_std(CurrentStmt.path)
             THEN Join(ConfiguredRoot, Tail(CurrentStmt.path))
             ELSE Join(Parent(Top.file), CurrentStmt.path)]_vars

----------------------------------------------------------------------------
(* Claims about the lexer *)

LexFinished == lex_status \notin {"lexing", "idle"}

\* C8: Token round-trip.  Lexing the canonical text of a token kind yields
\* exactly that one token followed by EOF, the two-character operators
\* == != <= >= && || included.
C8_TokenRoundTrip ==
    (LexFinished /\ input \in DOMAIN CanonicalText) =>
        /\ lex_status = "eof"
        /\ Len(tokens) = 2
        /\ tokens[1].tok.token_type = CanonicalText[input]
        /\ tokens[2].tok.token_type = "EOF"

\* 1-based line and column of the i-th character of a text
RECURSIVE LineOf(_, _)
LineOf(inp, i) ==
    IF i <= 1 THEN 1
    ELSE LineOf(inp, i - 1) + (IF inp[i - 1] = "\n" THEN 1 ELSE 0)

RECURSIVE ColumnOf(_, _)
ColumnOf(inp, i) ==
    IF i <= 1 \/ inp[i - 1] = "\n" THEN 1 ELSE ColumnOf(inp, i - 1) + 1

\* C9: every token carries the line and the column of its first character.
C9_TokenLocation ==
    \A i \in DOMAIN tokens :
        /\ tokens[i].tok.line = LineOf(input, tokens[i].start)
        /\ tokens[i].tok.column = ColumnOf(input, tokens[i].start)

----------------------------------------------------------------------------
(* Claims about the expression grammar *)

AllOps == MultiplicativeOps @@ AdditiveOps @@ ComparisonOps @@ LogicalOps

\* binding strength of the operator at the root of an expression
Level(n) ==
    CASE n.node = "Assignment" -> 0
      [] n.node = "BinaryOp" /\ n.value \in {"And", "Or"} -> 1
      [] n.node = "BinaryOp" /\ n.value \in {"Multiply", "Divide"} -> 4
      [] n.node = "BinaryOp" /\ n.value \in {"Add", "Subtract"} -> 3
      [] n.node = "BinaryOp" -> 2
      [] OTHER -> 5

\* the tokens an expression without parentheses was written with
RECURSIVE Flatten(_)
Flatten(n) ==
    CASE n.node = "Number" -> <<Tok("Number", n.value)>>
      [] n.node = "Variable" -> <<Tok("Identifier", n.value)>>
      [] n.node = "Assignment" ->
            <<Tok("Identifier", n.value), Tok("Assign", <<>>)>> \o Flatten(n.kids[1])
      [] n.node = "BinaryOp" ->
            Flatten(n.kids[1])
            \o <<Tok(CHOOSE t \in DOMAIN AllOps : AllOps[t] = n.value, <<>>)>>
            \o Flatten(n.kids[2])
      [] OTHER -> <<>>

\* standard grouping: the left operand of an operator binds at least as
\* tightly as the operator (left associativity), the right operand strictly
\* tighter; only the value of an assignment may be an assignment
RECURSIVE StandardGrouping(_)
StandardGrouping(n) ==
    CASE n.node = "BinaryOp" ->
            /\ Level(n.kids[1]) >= Level(n)
            /\ Level(n.kids[2]) > Level(n)
            /\ StandardGrouping(n.kids[1])
            /\ StandardGrouping(n.kids[2])
      [] n.node = "Assignment" -> StandardGrouping(n.kids[1])
      [] OTHER -> TRUE

\* the statement is (identifier =)* followed by operands and operators
\* other than `=`
RECURSIVE TargetsThenExpression(_, _)
TargetsThenExpression(ts, i) ==
    IF ts[i + 1].token_type = "Assign"
    THEN ts[i].token_type = "Identifier" /\ TargetsThenExpression(ts, i + 2)
    ELSE \A j \in i..Len(ts) : ts[j].token_type # "Assign"

\* C10: the AST of an expression statement is the standard one: it reads
\* back as the tokens it was parsed from, * and / bind tighter than + and -,
\* these tighter than comparisons, these tighter than && and ||, each level
\* groups to the left, and assignment groups to the right.
C10_Precedence ==
    parse_result # NotParsed =>
        /\ parse_result.error = None <=> TargetsThenExpression(toks, 1)
        /\ parse_result.error = None =>
              /\ parse_result.pos = Len(toks)
              /\ Flatten(parse_result.node) = SubSeq(toks, 1, Len(toks) - 2)
              /\ StandardGrouping(parse_result.node)

\* a statement `a - b * c - d;` has been parsed into (a - (b * c)) - d
C10_Witness ==
    /\ parse_result # NotParsed
    /\ parse_result.error = None
    /\ Len(toks) = 9
    /\ <<toks[2].token_type, toks[4].token_type, toks[6].token_type>>
          = <<"Minus", "Multiply", "Minus">>
    /\ parse_result.node.value = "Subtract"
    /\ parse_result.node.kids[1].value = "Subtract"
    /\ parse_result.node.kids[1].kids[2].value = "Multiply"

----------------------------------------------------------------------------
(* The code generator's output, read as a program *)

\* the nodes of a syntax tree: the node itself and the nodes below it, the
\* parameter, operand, template and clobber lists left out
RECURSIVE SubNodes(_)
SubNodes(node) ==
    IF node.node \in {"params", "template", "outputs", "inputs", "clobbers"} THEN {}
    ELSE {node} \cup UNION {SubNodes(node.kids[i]) : i \in 1..Len(node.kids)}

ExpressionKinds ==
    {"Number", "Variable", "StringLiteral", "BinaryOp", "Assignment",
     "ArrayIndex", "ArrayAssignment", "FunctionCall"}

\* the expression nodes of a Vec<AstNode>
Expressions(ast_nodes) ==
    {e \in UNION {SubNodes(ast_nodes[i]) : i \in 1..Len(ast_nodes)} :
        e.node \in ExpressionKinds}

\* by how many 8-byte values a run through the lines, from the first to the
\* last, leaves the machine stack higher; a call returns with the stack as
\* it found it
RECURSIVE StackEffect(_)
StackEffect(lines) ==
    IF lines = <<>> THEN 0
    ELSE StackEffect(Tail(lines))
         + (CASE Head(lines).op = "pushq" -> 1
              [] Head(lines).op = "popq" -> -1
              [] OTHER -> 0)

\* the lines generate_node emits for one node
EmittedFor(node) == generate_node(CodeGenerator(main_file), node).assembly

\* C11: the code emitted for every expression node of the program pushes
\* exactly one value more than it pops.
C11_EvaluationContract ==
    results # <<>> =>
        \A e \in Expressions(program) : StackEffect(EmittedFor(e)) = 1

\* the machine is at the first line of the callee's body, its prologue done
AtCalleeBody ==
    /\ cpu.state = "running"
    /\ cpu.code[cpu.pc] = Ins1("comment", Text("Begin inline assembly"))

\* the slot get_var_location gives the parameters, in the order of the
\* prologue's loop
ParameterSlot(params, i) ==
    store_parameters(CodeGenerator(TRUE), params, 0).var_map[params[i].value]

\* C12: after the callee's prologue the slot of every parameter holds the
\* value of the argument expression at the same position of the call.
C12_ArgumentsReachParameters ==
    AtCalleeBody =>
        LET params == program[1].kids[1].kids
            args == program[2].kids
        IN  \A i \in 1..Len(args) :
               Load(cpu, Address(cpu, Mem(ParameterSlot(params, i), "rbp")))
                   = Known(ArgumentValue(args[i]))

\* the latest run has returned its assembly
Generated ==
    /\ results # <<>>
    /\ results[Len(results)] # Panic

Output == results[Len(results)]

\* the values of the string literals of a Vec<AstNode>
LiteralValues(ast_nodes) ==
    {e.value : e \in {x \in Expressions(ast_nodes) : x.node = "StringLiteral"}}

\* the lines of the output that are equal to the given line
LinesEqual(line) == {k \in 1..Len(Output) : Output[k] = line}

\* C13: the output has exactly one .string entry for every distinct string
\* literal value of the program.
C13_StringPoolDedup ==
    Generated =>
        \A str \in LiteralValues(program) :
            Cardinality(LinesEqual(Ins1("string", Text(str)))) = 1

\* the lines of the output that define a label __init_<n>
InitLabels ==
    {k \in 1..Len(Output) :
        Output[k].op = "label" /\ Output[k].a.kind = "numbered"
        /\ Output[k].a.name = "__init_"}

\* the top-level nodes that are neither definitions nor predeclarations
NonFunctionCode(ast_nodes) ==
    \E i \in 1..Len(ast_nodes) :
        ast_nodes[i].node \notin {"FunctionDecl", "FunctionPredecl"}

\* C14: compiled as an included file, a program of function definitions
\* and predeclarations only gets no __init_<n> routine; any other program
\* gets exactly one, the output then ends in ret and has neither _start nor
\* a syscall.
C14_IncludedFileMode ==
    Generated /\ ~main_file =>
        IF NonFunctionCode(program)
        THEN /\ Cardinality(InitLabels) = 1
             /\ Output[Len(Output)] = Ins0("ret")
             /\ LinesEqual(LabelLine(Sym("_start"))) = {}
             /\ LinesEqual(Ins0("syscall")) = {}
        ELSE InitLabels = {}

\* the names of the functions defined at the top level
TopLevelFunctions(ast_nodes) ==
    {ast_nodes[i].value : i \in {j \in 1..Len(ast_nodes) : IsFunctionDecl(ast_nodes[j])}}

\* C15: compiled as main.zed, the output declares .global _start, has the
\* bodies of the top-level functions before _start: and the exit sequence
\* at its end, and no run of the process returns from _start: every run
\* that ends, ends in the exit system call with status 0.
C15_EntryFileMode ==
    /\ Generated /\ main_file =>
          /\ LinesEqual(Ins1("directive", Text(".global _start"))) # {}
          /\ \A name \in TopLevelFunctions(program) :
                LineOfLabel(Output, Sym(name)) \in 1..LineOfLabel(Output, Sym("_start"))
          /\ SubSeq(Output, Len(Output) - Len(ExitLines) + 1, Len(Output)) = ExitLines
    /\ cpu.state \notin {"returned", "crashed"}
    /\ cpu.state = "exited" =>
          /\ cpu.regs["rax"] = Known(60)
          /\ cpu.regs["rdi"] = Known(0)

\* the numbers of the labels with the given prefixes that the output defines
LabelNumbers(prefixes) ==
    {Output[k].a.off :
        k \in {j \in 1..Len(Output) :
                 Output[j].op = "label" /\ Output[j].a.kind = "numbered"
                 /\ Output[j].a.name \in prefixes}}

C17_ExitStatus ==
    process.done =>
        /\ process.exit = 0 <=> results # <<>>
        /\ process.exit \in {0, 1}

\* the call sites of a node list checked in parse order against the rule:
\* s is [pre: the names predeclared so far, done: the names whose definition
\* has been closed so far, ok], encl the function whose body is being read
RECURSIVE CallSitesDeclared(_, _, _)
CallSitesDeclared(nodes, s, encl) ==
    IF nodes = <<>> THEN s
    ELSE LET n == Head(nodes)
         IN  CallSitesDeclared(Tail(nodes),
                CASE n.node = "FunctionPredecl" -> [s EXCEPT !.pre = @ \cup {n.name}]
                  [] n.node = "FunctionCall" ->
                        [s EXCEPT !.ok = /\ @
                                         /\ n.name \in s.pre \cup s.done
                                         /\ n.name = encl => n.name \in s.pre]
                  [] OTHER ->
                        [CallSitesDeclared(n.body, s, n.name)
                            EXCEPT !.done = @ \cup {n.name}],
                encl)

\* the name of the first call of a statement list that the rule leaves
\* undeclared, given the names declared before the list
RECURSIVE FirstUndeclared(_, _)
FirstUndeclared(stmts, declared) ==
    IF stmts = <<>> THEN [declared |-> declared, name |-> None]
    ELSE LET x == Head(stmts)
         IN  CASE x.kind = "call" ->
                    IF x.name \in declared
                    THEN FirstUndeclared(Tail(stmts), declared)
                    ELSE [declared |-> declared, name |-> x.name]
               [] x.kind = "predecl" ->
                    FirstUndeclared(Tail(stmts), declared \cup {x.name})
               [] x.kind = "fn" ->
                    LET b == FirstUndeclared(x.body, declared)
                    IN  IF b.name # None THEN b
                        ELSE FirstUndeclared(Tail(stmts), b.declared \cup {x.name})
               [] OTHER -> [declared |-> declared, name |-> None]

\* C18: a call is rejected as undeclared exactly when its name is not in
\* declared_functions at its call site, where a name enters at its
\* predeclaration or at the end of its definition's body: in a unit that
\* parses, every call follows a predeclaration or a closed definition of its
\* callee, and a call to the function whose body it stands in follows a
\* predeclaration.
C18_CallsNeedDeclaration ==
    /\ status = "failed" /\ err.kind = "undeclared" =>
          FirstUndeclared(<<CurrentStmt>>, Top.declared_functions).name = err.name
    /\ status = "ok" =>
          CallSitesDeclared(ast, [pre |-> {}, done |-> {}, ok |-> TRUE], None).ok

\* the asm statements of a node, and of a node list, in the order
\* generate_node reaches them
RECURSIVE AsmNodes(_), AsmNodesOf(_)
AsmNodes(node) ==
    IF node.node = "InlineAsm" THEN <<node>>
    ELSE IF node.node \in {"params", "template", "outputs", "inputs", "clobbers"}
    THEN <<>>
    ELSE AsmNodesOf(node.kids)

AsmNodesOf(nodes) ==
    IF nodes = <<>> THEN <<>> ELSE AsmNodes(Head(nodes)) \o AsmNodesOf(Tail(nodes))

\* the asm statements of the program in the order of the output: generate
\* emits the function definitions first
EmittedAsm ==
    AsmNodesOf(SelectSeq(program, IsFunctionDecl)
               \o SelectSeq(program, IsNotFunctionDecl))

\* the position in the output of the k-th line equal to the given line
LineNumber(line, k) ==
    CHOOSE p \in LinesEqual(line) :
        Cardinality({q \in LinesEqual(line) : q < p}) = k - 1

\* the lines of the output for the k-th asm statement, and the positions of
\* its template lines among them
AsmLines(k) ==
    SubSeq(Output, LineNumber(Ins1("comment", Text("Begin inline assembly")), k),
           LineNumber(Ins1("comment", Text("End inline assembly")), k))

TemplateLines(seg) == {p \in 1..Len(seg) : seg[p].op = "asm"}

\* C20: in the output, every asm statement has before its template, for each
\* input operand i, a load of a stack slot into the i-th register of the
\* table, and after its template, for each "=r" output operand i, a store of
\* the i-th register of the table into a stack slot.
C20_AsmOperands ==
    Generated =>
        \A k \in 1..Len(EmittedAsm) :
            LET seg == AsmLines(k)
                output_ops == EmittedAsm[k].kids[2].kids
                input_ops == EmittedAsm[k].kids[3].kids
            IN  /\ \A i \in 1..Len(input_ops) :
                      \E p \in 1..Len(seg) :
                          /\ \A t \in TemplateLines(seg) : p < t
                          /\ seg[p].op = "movq"
                          /\ seg[p].a.kind = "mem" /\ seg[p].a.name = "rbp"
                          /\ seg[p].b = Reg(AsmRegisters[i])
                /\ \A i \in 1..Len(output_ops) :
                      output_ops[i].value = "=r" =>
                          \E p \in 1..Len(seg) :
                              /\ \A t \in TemplateLines(seg) : p > t
                              /\ seg[p].op = "movq"
                              /\ seg[p].a = Reg(AsmRegisters[i])
                              /\ seg[p].b.kind = "mem" /\ seg[p].b.name = "rbp"

\* the parser has raised an error (the lexer has not)
ParserError ==
    /\ parse_result.error \notin {None, "not parsed"}
    /\ tokens[Len(tokens)].tok.token_type # "Error"

\* Lexer::create_error as the parser calls it: the location is read from
\* the lexer
ErrorLocation == [line |-> lexer.line, column |-> lexer.column]

\* C19: an error raised by the parser carries the line and the column of
\* the first character of the token at which it was detected, which is
\* Parser.current_token.
C19_ErrorLocation ==
    ParserError =>
        ErrorLocation = [line |-> LineOf(input, tokens[Len(tokens)].start),
                         column |-> ColumnOf(input, tokens[Len(tokens)].start)]

\* the function definitions of a Vec<AstNode>, nested ones included
FunctionDecls(ast_nodes) ==
    {e \in UNION {SubNodes(ast_nodes[i]) : i \in 1..Len(ast_nodes)} :
        e.node = "FunctionDecl"}

\* a line without the number of its label or string
Unnumbered(line) ==
    [line EXCEPT !.a = IF @.kind = "numbered" THEN Numbered(@.name, 0) ELSE @,
                 !.b = IF @.kind = "numbered" THEN Numbered(@.name, 0) ELSE @]

\* the lines generate_node appends for a node to a generator
EmittedFrom(g, node) ==
    LET lines == generate_node(g, node).assembly
    IN  SubSeq(lines, Len(g.assembly) + 1, Len(lines))

IsPrefix(s, t) == Len(s) <= Len(t) /\ SubSeq(t, 1, Len(s)) = s

\* C21: generating a function definition on the generator as the run left
\* it gives back var_map and current_stack_offset unchanged, keeps
\* label_count and string_literals, and emits the lines a generator with an
\* empty slot table emits (label and string numbers apart).
C21_FunctionFrameEffect ==
    Generated =>
        \A f \in FunctionDecls(program) :
            /\ \A g \in {generate_node(generator, f)} :
                  /\ g.var_map = generator.var_map
                  /\ g.current_stack_offset = generator.current_stack_offset
                  /\ g.label_count >= generator.label_count
                  /\ IsPrefix(generator.string_literals, g.string_literals)
            /\ \A lines \in {EmittedFrom(generator, f)}, fresh \in {EmittedFor(f)} :
                  /\ Len(lines) = Len(fresh)
                  /\ \A k \in 1..Len(lines) : Unnumbered(lines[k]) = Unnumbered(fresh[k])

\* a function with a parameter that reads x was generated in a run that has
\* given x a slot outside the function
C21_Witness ==
    /\ Generated
    /\ "x" \in DOMAIN generator.var_map
    /\ \E f \in FunctionDecls(program) :
          /\ f.kids[1].kids # <<>>
          /\ \E e \in SubNodes(f.kids[2]) :
                e.node \in {"Variable", "Assignment"} /\ e.value = "x"

\* the If nodes of a Vec<AstNode>
IfNodes(ast_nodes) ==
    {e \in UNION {SubNodes(ast_nodes[i]) : i \in 1..Len(ast_nodes)} : e.node = "If"}

\* the lines of the parts of an If node on a fresh generator whose first two
\* labels are taken: the condition, then the then-branch, then the
\* else-branch if there is one
IfParts(n) ==
    LET c == generate_node(get_new_label(get_new_label(CodeGenerator(main_file))),
                           n.kids[1])
        t == generate_node(c, n.kids[2])
    IN  [condition |-> c.assembly,
         then_branch |-> EmittedFrom(c, n.kids[2]),
         else_branch |-> IF Len(n.kids) = 3 THEN EmittedFrom(t, n.kids[3]) ELSE <<>>]

\* C22: an If node on a fresh generator takes .L0 for its else-label and
\* .L1 for its end-label and emits condition, popq %rax, testq, je .L0,
\* then-branch, jmp .L1, .L0:, else-branch, .L1: in this order; in a whole
\* output every .L<n> label is defined once and every jump goes to a label
\* the output defines.
C22_IfEmission ==
    Generated =>
        /\ \A n \in IfNodes(program) : \A parts \in {IfParts(n)} :
              EmittedFor(n) =
                  parts.condition
                  \o <<Ins1("popq", Reg("rax")), Ins("testq", Reg("rax"), Reg("rax")),
                       Ins1("je", Numbered(".L", 0))>>
                  \o parts.then_branch
                  \o <<Ins1("jmp", Numbered(".L", 1)), LabelLine(Numbered(".L", 0))>>
                  \o parts.else_branch
                  \o <<LabelLine(Numbered(".L", 1))>>
        /\ \A k \in 1..Len(Output) :
              /\ Output[k].op = "label" /\ Output[k].a.kind = "numbered"
                    => LinesEqual(Output[k]) = {k}
              /\ Output[k].op \in Jumps => LinesEqual(LabelLine(Output[k].a)) # {}

\* the output of a program with an If whose condition holds && and which
\* has an else-branch, and with more labels after those of the If
C22_Witness ==
    /\ Generated
    /\ \E n \in IfNodes(program) :
          /\ n.kids[1].node = "BinaryOp" /\ n.kids[1].value = "And"
          /\ Len(n.kids) = 3
    /\ generator.label_count > 3
    /\ \E k \in 1..Len(Output) : Output[k].op = "jz"

\* whether the operation holds of the values a and b
Holds(op, a, b) ==
    CASE op = "And" -> a # 0 /\ b # 0
      [] op = "Or" -> a # 0 \/ b # 0
      [] op = "Equals" -> a = b
      [] op = "NotEquals" -> a # b
      [] op = "Less" -> a < b
      [] op = "Greater" -> a > b
      [] op = "LessEqual" -> a <= b
      [] OTHER -> a >= b

\* the processor has just executed the last `pushq %rax` of the code, which
\* pushes the value of the program's last expression
ValuePushed ==
    /\ cpu.state = "running"
    /\ cpu.pc > 1
    /\ cpu.code[cpu.pc - 1] = Ins1("pushq", Reg("rax"))
    /\ \A k \in cpu.pc..Len(cpu.code) : cpu.code[k] # Ins1("pushq", Reg("rax"))

C23_NoRecovery ==
    /\ [](status = "failed" =>
             /\ ast = <<>>
             /\ results = <<>>
             /\ Len(process.stderr) <= 1
             /\ process.done =>
                   /\ process.stderr = <<err>>
                   /\ process.exit = 1)
    /\ [][status = "failed" =>
             /\ UNCHANGED <<stack, err, ast, parsed, results>>
             /\ process'.out_file = process.out_file]_vars

\* the second statement of a file included by main.zed raised the error,
\* after a definition was parsed, and the process has ended with the old
\* output file in place
C23_Witness ==
    /\ status = "failed"
    /\ process.done
    /\ process.out_file = "old"
    /\ Len(stack) > 1
    /\ Top.pos > 1
    /\ Top.defined_functions # {}

\* the three sets of the parser `after` hold those of the parser `before`
Grown(before, after) ==
    /\ before.declared_functions \subseteq after.declared_functions
    /\ before.defined_functions \subseteq after.defined_functions
    /\ before.included_files \subseteq after.included_files

\* C24: in every parser defined_functions is a subset of declared_functions,
\* and no step takes a name or a path out of the three sets of a parser: a
\* parser that goes on holds what it held, a child starts with what its
\* parent holds, and a parent goes on with what its child held.
C24_SymbolSetsGrow ==
    /\ [](\A i \in 1..Len(stack) :
             stack[i].defined_functions \subseteq stack[i].declared_functions)
    /\ [][/\ \A i \in 1..Len(stack) : i <= Len(stack') => Grown(stack[i], stack'[i])
          /\ Len(stack') > Len(stack) => Grown(Top, stack'[Len(stack')])
          /\ Len(stack') < Len(stack) => Grown(Top, stack'[Len(stack')])]_vars

\* a unit was parsed in which an included file defined a function after a
\* predeclaration in the including file
C24_Witness ==
    /\ status = "ok"
    /\ Top.included_files # {}
    /\ Top.defined_functions # {}
    /\ \E i \in 1..Len(fs[entry]) : fs[entry][i].kind = "predecl"
    /\ \A i \in 1..Len(fs[entry]) : fs[entry][i].kind # "fn"

\* C25: every str<N> a leaq of the output names is a label the output
\* defines, and the output of a program with a string literal has a .data
\* section.
C25_StringLabelsDefined ==
    Generated =>
        /\ \A k \in 1..Len(Output) :
              Output[k].op = "leaq" /\ Output[k].a.kind = "numbered"
                  => LinesEqual(LabelLine(Output[k].a)) # {}
        /\ LiteralValues(program) # {}
              => LinesEqual(Ins1("directive", Text(".section .data"))) # {}

\* the offsets of the slots the output reads and writes
SlotOffsets ==
    {op.off : op \in {x \in UNION {{Output[k].a, Output[k].b} : k \in 1..Len(Output)} :
                        x.kind = "mem" /\ x.name = "rbp" /\ x.off < 0}}

\* C26: every slot of the output is a multiple of -8 inside the 256 bytes
\* the frame reserves, and distinct identifiers of a routine have distinct
\* slots.
C26_SlotsInFrame ==
    Generated =>
        /\ \A off \in SlotOffsets : off % 8 = 0 /\ off >= -ReservedBytes
        /\ \A x, y \in DOMAIN generator.var_map :
              x # y => generator.var_map[x] # generator.var_map[y]

\* C30: generate returns an assembly text for every program; no asm
\* statement takes the generator outside its register table.
C30_GenerationTotal ==
    \A i \in 1..Len(results) : results[i] # Panic

\* C29: the error a compilation reports is determined by the source files:
\* the function named in 'declared but not defined' is the only one the
\* parser could have named.
C29_DiagnosticDetermined ==
    status = "failed" /\ err.kind = "declared but not defined" =>
        \A n \in Top.declared_functions \ Top.defined_functions : n = err.name

----------------------------------------------------------------------------
(* Termination of the front end: the parser over three files of includes
   and function declarations, and the lexer over a whole text. The compiler is one sequential process that keeps
   executing until parse_program returns, hence weak fairness of its steps. *)

\* the statements that decide how far the parser gets: the three includes,
\* a declaration that needs a definition, and that definition
TermStmts ==
    {Include(q) : q \in IncludePaths} \cup {Predecl("f"), Fn("f", <<>>)}

RECURSIVE TermSeqs(_)
TermSeqs(s) ==
    IF s = 0 THEN {<<>>}
    ELSE {<<x>> \o r : x \in TermStmts, r \in TermSeqs(s - 1)}

\* the characters that drive the loops of skip_whitespace_and_comments
TermAlphabet == {"a", " ", "\n", "/", "*"}

RECURSIVE TermStrings(_)
TermStrings(n) ==
    IF n = 0 THEN {<<>>}
    ELSE {<<c>> \o r : c \in TermAlphabet, r \in TermStrings(n - 1)}

InitTermParse ==
    /\ entry \in Files
    /\ home = HomeDir
    /\ cli_stdlib = NoPath
    /\ \E a, b, c \in 0..MaxSize :
          /\ a + b + c <= MaxSize
          /\ \E x \in TermSeqs(a), y \in TermSeqs(b), z \in TermSeqs(c) :
                fs = (MainFile :> x) @@ (BFile :> y) @@ (CFile :> z)
    /\ compile
    /\ LexIdle
    /\ ExprIdle
    /\ BackIdle

InitTermLex ==
    /\ input \in UNION {TermStrings(n) : n \in 0..MaxLen}
    /\ lexer = Lexer
    /\ tokens = <<>>
    /\ lex_status = "lexing"
    /\ ParseIdle
    /\ ExprIdle
    /\ BackIdle

InitTerm == InitTermParse \/ InitTermLex

NextTerm == ParseStatement \/ ParseInclude \/ ParseProgramEnd \/ NextToken

SpecTerm == InitTerm /\ [][NextTerm]_vars /\ WF_vars(NextTerm)

\* parse_program has returned Ok or Err, or the lexer has reached EOF or an
\* error
Returned ==
    \/ status \in {"ok", "failed"}
    \/ lex_status \notin {"idle", "lexing"}

\* one step of the front end makes progress: a next_token call that yields a
\* token other than EOF moves the position forward, a statement of the
\* current file moves that parser past it, and a nested include starts a
\* parser whose included_files has one path more than its parent had
Progress ==
    /\ lex_status = "lexing" /\ lex_status' = "lexing" =>
           lexer'.position > lexer.position
    /\ status = "parsing" /\ status' = "parsing" /\ Len(stack') = Len(stack) =>
           stack'[Len(stack')].pos > Top.pos
    /\ status = "parsing" /\ Len(stack') > Len(stack) =>
           /\ Top.included_files \subseteq stack'[Len(stack')].included_files
           /\ stack'[Len(stack')].included_files \ Top.included_files # {}
           /\ stack'[Len(stack')].included_files \subseteq DOMAIN fs
    /\ status = "parsing" /\ status' = "parsing" /\ Len(stack') < Len(stack) =>
           stack'[Len(stack')].pos > stack[Len(stack')].pos

====
